---- MODULE Spec2Model ----
(***************************************************************************)
(* Resumable paginated export of download_eaeu_odata_csv.py: main's loop   *)
(* over country x time-slice units, stream_country's page walk with its    *)
(* error handling and 504 filter fallback, the resume state file and its   *)
(* save, and the rotating CSV part writer.                                 *)
(***************************************************************************)
EXTENDS Integers, Sequences, FiniteSets, TLC

\* ------------------------------------------------------------------ bounds
\* Largest number of items in one unit's upstream result set.
MaxItems == 2
\* Largest --limit (page size) tried.
MaxLimit == 2
\* Number of process runs (the first run plus re-runs after it ended).
MaxRuns == 2
\* Longest streak of failed requests the upstream produces in SpecResume
\* (Spec lets a streak run up to MAX_CONSECUTIVE_BATCH_ERRORS).
MaxStreak == 1
\* The requests a walk issues at one offset are counted up to MaxRequests
\* (one more than the walker can issue: MAX_CONSECUTIVE_BATCH_ERRORS + 1).
MaxRequests == 10
\* --max-rows-per-file of the export runs.
RunRowsPerFile == 1
\* Largest max_rows_per_file of a CsvPartWriter driven on its own; it is
\* handed up to 2 * MaxRowsPerFile + 5 rows.
MaxRowsPerFile == 6

\* --------------------------------------------------------- program constants
MAX_CONSECUTIVE_BATCH_ERRORS == 8

\* updated_from is str | None in the code; None and "" are both falsy.
None == ""
UpdatedFromValues == {None, "2024-06-24T00:00:00.00Z"}
DateFilterModes == {"auto", "server", "client"}

\* HTTP statuses for which raise_for_status() raises, one of each class the
\* walker tells apart: a 4xx, the rate limit 429, a 5xx and the 504.
ErrorStatuses == {404, 429, 503, 504}

\* --slice-date-field, --slice-start (their defaults) and --slice-end.
slice_date_field == "docStartDate"
slice_start == "2015-01-01"
slice_end_raw == "2016-12-31"

\* The runs tried: two countries unsliced, or one country sliced by year.
Layouts == {<<(<<"KG", "RU">>), "none">>, <<(<<"KG">>), "year">>}

VARIABLES
    \* run configuration (args) and the upstream collection; fixed by Init
    countries,                  \* the list normalize_countries returns
    slice_by,                   \* args.slice_by
    limit,                      \* args.limit
    updated_from,               \* normalized --updated-from or None
    date_filter_mode,           \* args.date_filter_mode
    upstream,                   \* per item of a unit's result set: is its
                                \* updateDateTime parseable and >= updated_from
    \* the process
    run,                        \* number of the current process run
    resume,                     \* args.resume of the current run
    mpc,                        \* "running", "done", "fatal" or "killed"
    state,                      \* main's in-memory state["countries"]
    state_file,                 \* the state file on disk
    unit_idx,                   \* position of main's loops in WorkUnits
    total,                      \* main's total
    \* stream_country's locals
    pc,                         \* "idle", "fetch", "handle", "report", "report_done"
    start_skip,
    resumed_written,            \* history: written_in_run of the entry that
                                \* start_skip was read from (0 without one)
    offset_requests,            \* history: the requests this walk has
                                \* issued at the current skip
    items_received,             \* history: the raw items this walk has
                                \* received in its pages
    skip,
    total_written,
    batch_count,
    consecutive_errors,
    use_server_updated_filter,
    use_client_updated_filter,
    response,                   \* outcome of the fetch_batch call being handled
    data,
    rows,
    \* output: per run, the rows handed to writer.write_rows, in order
    out,
    writer,                     \* the CsvPartWriter object
    disk,                       \* the output files: path -> lines
    \* save_state in steps
    fs,                         \* the state file and its temp file:
                                \* path -> [text, written]
    save_pc,                    \* "idle", "open", "dump", "replace", "dead"
    save_arg,                   \* the state handed to save_state
    \* one function called on its own
    call,                       \* the arguments of the call
    result                      \* what the call returned

vars == <<countries, slice_by, limit, updated_from, date_filter_mode, upstream, run, resume, mpc,
          state, state_file, unit_idx, total, pc, start_skip, resumed_written,
          offset_requests, items_received,
          skip, total_written, batch_count, consecutive_errors,
          use_server_updated_filter, use_client_updated_filter, response,
          data, rows, out, writer, disk, fs, save_pc, save_arg, call, result>>

config_vars == <<countries, slice_by, limit, updated_from, date_filter_mode, upstream>>

\* A datetime at midnight UTC, as parse_yyyy_mm_dd yields it.
datetime(year, month, day) == <<year, month, day>>

\* a < b and a <= b on datetime values
DateLT(a, b) ==
    \/ a[1] < b[1]
    \/ a[1] = b[1] /\ a[2] < b[2]
    \/ a[1] = b[1] /\ a[2] = b[2] /\ a[3] < b[3]

DateLE(a, b) == a = b \/ DateLT(a, b)

IsLeap(year) == (year % 4 = 0 /\ year % 100 # 0) \/ year % 400 = 0

\* The day of next_month - timedelta(days=1).
DaysInMonth(year, month) ==
    IF month = 2 THEN (IF IsLeap(year) THEN 29 ELSE 28)
    ELSE IF month \in {4, 6, 9, 11} THEN 30 ELSE 31

\* f"{n:02d}" and f"{n:04d}"
Pad2(n) == IF n < 10 THEN "0" \o ToString(n) ELSE ToString(n)

Pad4(n) ==
    IF n < 10 THEN "000" \o ToString(n)
    ELSE IF n < 100 THEN "00" \o ToString(n)
    ELSE IF n < 1000 THEN "0" \o ToString(n) ELSE ToString(n)

\* dt.strftime("%Y-%m-%d")
strftime(dt) == Pad4(dt[1]) \o "-" \o Pad2(dt[2]) \o "-" \o Pad2(dt[3])

\* parse_yyyy_mm_dd of --slice-start and of slice_end_raw
slice_start_dt == datetime(2015, 1, 1)
slice_end_dt == datetime(2016, 12, 31)

\* the first day of the month after cursor's
next_month(cursor) ==
    IF cursor[2] = 12 THEN datetime(cursor[1] + 1, 1, 1)
    ELSE datetime(cursor[1], cursor[2] + 1, 1)

\* Variant: a slice ends with its calendar bucket.
clipped_end_unclipped(part_end, end_utc) == part_end

\* max(part_start, start_utc) and min(part_end, end_utc)
clipped_end(part_end, end_utc) ==
    IF DateLT(end_utc, part_end) THEN end_utc ELSE part_end

clipped_start(part_start, start_utc) ==
    IF DateLT(part_start, start_utc) THEN start_utc ELSE part_start

\* The while loop of iter_time_slices from cursor on; slices is the list so far.
RECURSIVE slices_from(_, _, _, _, _)
slices_from(by, start_utc, end_utc, cursor, slices) ==
    IF ~DateLE(cursor, end_utc) THEN slices
    ELSE LET part_start == IF by = "year" THEN datetime(cursor[1], 1, 1)
                           ELSE datetime(cursor[1], cursor[2], 1)
             part_end == IF by = "year" THEN datetime(cursor[1], 12, 31)
                         ELSE datetime(cursor[1], cursor[2],
                                       DaysInMonth(cursor[1], cursor[2]))
             label == IF by = "year" THEN ToString(cursor[1])
                      ELSE Pad4(cursor[1]) \o "-" \o Pad2(cursor[2])
             next == IF by = "year" THEN datetime(cursor[1] + 1, 1, 1)
                     ELSE next_month(cursor)
         IN IF DateLT(part_end, start_utc) \/ DateLT(end_utc, part_start)
            THEN slices_from(by, start_utc, end_utc, next, slices)
            ELSE slices_from(by, start_utc, end_utc, next,
                     Append(slices,
                            <<label,
                              strftime(clipped_start(part_start, start_utc)),
                              strftime(clipped_end(part_end, end_utc))>>))

\* iter_time_slices: the (label, start, end) of each slice
iter_time_slices(by, start_utc, end_utc) ==
    IF by = "none"
    THEN << <<"all", strftime(start_utc), strftime(end_utc)>> >>
    ELSE slices_from(by, start_utc, end_utc,
                     datetime(start_utc[1], start_utc[2], 1), <<>>)

time_slices == iter_time_slices(slice_by, slice_start_dt, slice_end_dt)

\* state_key = f"{country}|{slice_label}"
state_key(country, slice_label) == <<country, slice_label>>

\* The (country, slice) pairs in the order of main's nested for loops.
WorkUnits ==
    [i \in 1..(Len(countries) * Len(time_slices)) |->
        state_key(countries[((i - 1) \div Len(time_slices)) + 1],
                  time_slices[((i - 1) % Len(time_slices)) + 1][1])]

\* The slice (label, start, end) of a unit of WorkUnits.
SliceOf(i) == time_slices[((i - 1) % Len(time_slices)) + 1]
save_vars == <<fs, save_pc, save_arg>>
call_vars == <<call, result>>
walk_vars == <<start_skip, resumed_written, offset_requests, items_received, skip, total_written, batch_count,
               consecutive_errors, use_server_updated_filter,
               use_client_updated_filter, data, rows>>
export_vars_but_mpc == <<config_vars, run, resume, state, state_file, unit_idx,
                         total, pc, walk_vars, response>>
\* the export process without its writer
export_vars == <<config_vars, run, resume, mpc, state, state_file, unit_idx,
                 total, pc, walk_vars, response>>

\* ------------------------------------------------------------ pure helpers
Min(a, b) == IF a < b THEN a ELSE b

\* bool(x) of a str | None
Truthy(s) == s # None

SeqOf(S, n) == UNION {[1..k -> S] : k \in 0..n}

\* A dict as a function on its present keys; d[k] = v.
DictSet(d, k, v) == [x \in (DOMAIN d) \cup {k} |-> IF x = k THEN v ELSE d[x]]

EmptyDict == [x \in {} |-> 0]

\* The clauses build_odata_filter formats.
CountryClause(country_code) == "unifiedCountryCode/value eq '" \o country_code \o "'"

UpdatedClause(upd_from) == "resourceItemStatusDetails/updateDateTime ge " \o upd_from

\* Variant: the updated-since clause is added whenever a threshold is given.
filter_clauses_always(country_code, upd_from, apply_server_updated_filter, extra_clauses) ==
    LET clauses == <<CountryClause(country_code)>> IN
    LET clauses2 == IF Truthy(upd_from)
                    THEN Append(clauses, UpdatedClause(upd_from)) ELSE clauses IN
    clauses2 \o extra_clauses

\* build_odata_filter's list clauses
filter_clauses(country_code, upd_from, apply_server_updated_filter, extra_clauses) ==
    LET clauses == <<CountryClause(country_code)>> IN
    LET clauses2 == IF Truthy(upd_from) /\ apply_server_updated_filter
                    THEN Append(clauses, UpdatedClause(upd_from)) ELSE clauses IN
    clauses2 \o extra_clauses

\* sep.join(texts)
RECURSIVE join(_, _)
join(sep, texts) ==
    IF texts = <<>> THEN ""
    ELSE IF Len(texts) = 1 THEN texts[1]
    ELSE texts[1] \o sep \o join(sep, Tail(texts))

\* Variant: the clauses are alternatives.
build_odata_filter_or(country_code, upd_from, apply_server_updated_filter, extra_clauses) ==
    join(" or ", filter_clauses(country_code, upd_from,
                                apply_server_updated_filter, extra_clauses))

\* build_odata_filter: the text sent as $filter
build_odata_filter(country_code, upd_from, apply_server_updated_filter, extra_clauses) ==
    join(" and ", filter_clauses(country_code, upd_from,
                                 apply_server_updated_filter, extra_clauses))

\* build_slice_clauses: the ge / le pair on the slice date field.
build_slice_clauses(date_field, start_date, end_date) ==
    << date_field \o " ge " \o start_date \o "T00:00:00.00Z",
       date_field \o " le " \o end_date \o "T23:59:59.99Z" >>

\* The upstream's answer to $filter/$skip/$top on a stable, ordered result
\* set: items are named by their position in the unit's unfiltered set.
Indices(n) == [i \in 1..n |-> i]

IsFresh(i) == upstream[i]

ServerView(filter) ==
    IF \E j \in 1..Len(filter) : filter[j] = UpdatedClause(updated_from)
    THEN SelectSeq(Indices(Len(upstream)), IsFresh)
    ELSE Indices(Len(upstream))

ServerPage(filter, skp, top) ==
    LET view == ServerView(filter) IN
    SubSeq(view, skp + 1, Min(skp + top, Len(view)))

\* record_matches_updated_from on the normalized record of item i.
item_matches_updated_from(i, upd_from) ==
    IF ~Truthy(upd_from) THEN TRUE ELSE IsFresh(i)

\* The rows a page yields (stream_country's for loop over data).
PageRows(page, client_filter) ==
    LET Keep(i) == ~(client_filter /\ ~item_matches_updated_from(i, updated_from))
    IN SelectSeq(page, Keep)

\* main's signature of the run's arguments
signature(ctries, upd_from, mode, by) ==
    [countries |-> ctries, updated_from |-> upd_from, date_filter_mode |-> mode,
     slice_by |-> by, slice_date_field |-> slice_date_field,
     slice_start |-> slice_start, slice_end |-> slice_end_raw]

Signature == signature(countries, updated_from, date_filter_mode, slice_by)

\* load_state
load_state(file) ==
    IF ~file.exists THEN EmptyDict ELSE file.countries

\* state.get("signature") of what load_state returns (None without a file)
StoredSignature(file) ==
    IF ~file.exists THEN EmptyDict ELSE file.signature

\* Variant: the stored signature is never compared.
SignatureMismatch_unchecked(res, stored, sig) == FALSE

\* args.resume and state.get("signature") and state["signature"] != signature
SignatureMismatch(res, stored, sig) ==
    res /\ DOMAIN stored # {} /\ stored # sig

\* save_state: temp file then os.replace; main has set state["signature"].
save_state(st) == [exists |-> TRUE, countries |-> st, signature |-> Signature]

\* ------------------------------------------------------------ CsvPartWriter
\* A file name is kept split as filename.rsplit(".", 1) splits it: dotted
\* tells whether it holds a "."; without one ext is "".
FileName(base, ext, dotted) == [base |-> base, ext |-> ext, dotted |-> dotted]

FullName(filename) == filename.base \o filename.ext

\* f"{part_index:03d}"
Pad3(n) ==
    IF n < 10 THEN "00" \o ToString(n)
    ELSE IF n < 100 THEN "0" \o ToString(n) ELSE ToString(n)

\* CsvPartWriter._split_name
_split_name(filename, part_index) ==
    LET ext == IF filename.dotted THEN filename.ext ELSE ".csv" IN
    IF part_index = 1 THEN FullName(filename)
    ELSE filename.base \o "_part" \o Pad3(part_index) \o ext

\* CsvPartWriter.__init__ (max_rows_per_file > 0)
CsvPartWriter(filename, max_rows_per_file) ==
    [filename |-> filename, max_rows_per_file |-> max_rows_per_file,
     _file |-> None, _rows_in_part |-> 0, _part_index |-> 0,
     total_rows |-> 0, files_created |-> <<>>]

\* The lines of a part file: the header line and the data rows.
HeaderLine == <<"header">>
RowLine(row) == <<"row", row>>

\* Variant: every close moves on to the next part index.
close_current_advancing(wd) ==
    [wd EXCEPT !.w._file = None, !.w._part_index = @ + 1]

\* close_current: _file (and the _writer bound to it) is closed and dropped.
close_current(wd) == [wd EXCEPT !.w._file = None]

\* _open_next_file: open(path, "w") truncates, writeheader writes the header.
_open_next_file(wd) ==
    LET c == close_current(wd)
        part_index == c.w._part_index + 1
        path == _split_name(c.w.filename, part_index)
    IN [w |-> [c.w EXCEPT !._part_index = part_index,
                          !._file = path,
                          !._rows_in_part = 0,
                          !.files_created = Append(@, path)],
        d |-> DictSet(c.d, path, <<HeaderLine>>)]

\* Variant: the row of a call that rotates is not written.
write_row_rotate_only(wd, row) ==
    LET a == IF wd.w._file = None THEN _open_next_file(wd) ELSE wd IN
    IF a.w._rows_in_part >= a.w.max_rows_per_file
    THEN _open_next_file(a)
    ELSE [w |-> [a.w EXCEPT !._rows_in_part = @ + 1, !.total_rows = @ + 1],
          d |-> [a.d EXCEPT ![a.w._file] = Append(@, RowLine(row))]]

\* Variant: a part is rotated only once it holds more than max_rows_per_file.
write_row_late(wd, row) ==
    LET a == IF wd.w._file = None THEN _open_next_file(wd) ELSE wd
        b == IF a.w._rows_in_part > a.w.max_rows_per_file
             THEN _open_next_file(a) ELSE a
    IN [w |-> [b.w EXCEPT !._rows_in_part = @ + 1, !.total_rows = @ + 1],
        d |-> [b.d EXCEPT ![b.w._file] = Append(@, RowLine(row))]]

\* write_row on the writer w and the files d
write_row(wd, row) ==
    LET a == IF wd.w._file = None THEN _open_next_file(wd) ELSE wd
        b == IF a.w._rows_in_part >= a.w.max_rows_per_file
             THEN _open_next_file(a) ELSE a
    IN [w |-> [b.w EXCEPT !._rows_in_part = @ + 1, !.total_rows = @ + 1],
        d |-> [b.d EXCEPT ![b.w._file] = Append(@, RowLine(row))]]

\* write_rows: write_row for each row in order
RECURSIVE write_rows(_, _)
write_rows(wd, rws) ==
    IF rws = <<>> THEN wd
    ELSE write_rows(write_row(wd, Head(rws)), Tail(rws))

\* close
close(wd) == close_current(wd)

\* output_name without --output: the name carries the start time's stamp,
\* which differs from run to run.
output_name(ctries, upd_from, r) ==
    LET suffix == IF Len(ctries) = 1 THEN ctries[1]
                  ELSE ctries[1] \o "_" \o ctries[2]
        stamp == "run" \o ToString(r)
    IN FileName("export_odata_" \o suffix
                   \o (IF Truthy(upd_from) THEN "_updated_" ELSE "_") \o stamp,
                ".csv", TRUE)

\* The rows of a page as they are handed to the writer.
TaggedRows(key, rws) == [j \in 1..Len(rws) |-> <<key, rws[j]>>]

\* Variant: every entry is marked done.
Entry_marked_done(next_skip, written, done, client_filter_active) ==
    [next_skip |-> next_skip, written_in_run |-> written, done |-> TRUE,
     client_filter_active |-> client_filter_active]

\* persist_country_state's entry (updated_at is a wall-clock stamp, never read)
Entry(next_skip, written, done, client_filter_active) ==
    [next_skip |-> next_skip, written_in_run |-> written, done |-> done,
     client_filter_active |-> client_filter_active]

\* ------------------------------------------------------ save_state in steps
\* DEFAULT_STATE_FILE
StatePath == ".eaeu_export_state.json"

\* Variant: the state is written straight to the target path.
tmp_path_in_place(path) == path

\* tmp_path = f"{path}.tmp"
tmp_path(path) == path \o ".tmp"

\* json.dump writes the text in pieces: the frame and one piece per entry.
JsonChunks(st) == 1 + Cardinality(DOMAIN st)

\* A file whose text was written to its end.
WholeFile(st) == [text |-> st, written |-> JsonChunks(st)]

\* os.replace: dst becomes the file src was, in one step; src is gone.
os_replace(files, src, dst) ==
    IF src = dst THEN files
    ELSE [x \in ((DOMAIN files) \ {src}) \cup {dst} |->
             IF x = dst THEN files[src] ELSE files[x]]

\* No function is being called on its own.
NoCall == [f |-> "none"]
CallIdle == call = NoCall /\ result = NoCall

\* The states handed to save_state: no entry, or one unit's entry.
SaveStates ==
    {EmptyDict} \cup
    {DictSet(EmptyDict, state_key("KG", "all"), Entry(n, n, d, FALSE)) :
        n \in 0..MaxItems, d \in BOOLEAN}

SaveIdle ==
    /\ fs = EmptyDict
    /\ save_pc = "idle"
    /\ save_arg = EmptyDict

CurKey == WorkUnits[unit_idx]

NoResponse == [kind |-> "none", status |-> 0, skip |-> 0, filter |-> <<>>, data |-> <<>>]

\* ------------------------------------------------------------------- Init
Init ==
    /\ \E layout \in Layouts : countries = layout[1] /\ slice_by = layout[2]
    /\ limit \in 1..MaxLimit
    /\ updated_from \in UpdatedFromValues
    /\ date_filter_mode \in DateFilterModes
    /\ upstream \in SeqOf(BOOLEAN, MaxItems)
    \* without a threshold no item is older than it
    /\ (~Truthy(updated_from)) => (\A i \in 1..Len(upstream) : upstream[i])
    /\ run = 1
    /\ resume = FALSE
    /\ mpc = "running"
    /\ state = EmptyDict
    /\ state_file = [exists |-> FALSE, countries |-> EmptyDict,
                     signature |-> EmptyDict]
    /\ unit_idx = 1
    /\ total = 0
    /\ pc = "idle"
    /\ start_skip = 0
    /\ resumed_written = 0
    /\ offset_requests = 0
    /\ items_received = 0
    /\ skip = 0
    /\ total_written = 0
    /\ batch_count = 0
    /\ consecutive_errors = 0
    /\ use_server_updated_filter = FALSE
    /\ use_client_updated_filter = FALSE
    /\ response = NoResponse
    /\ data = <<>>
    /\ rows = <<>>
    /\ out = [r \in 1..MaxRuns |-> <<>>]
    /\ writer = CsvPartWriter(output_name(countries, updated_from, 1), RunRowsPerFile)
    /\ disk = EmptyDict
    /\ SaveIdle
    /\ CallIdle

\* ------------------------------------------------- decisions of the walker
\* use_server_updated_filter / use_client_updated_filter at walk start
InitialServerFilter(upd_from, mode) == Truthy(upd_from) /\ mode \in {"server", "auto"}

\* Variant: the client-side filter is on in auto mode as well.
InitialClientFilter_in_auto(upd_from, mode) ==
    Truthy(upd_from) /\ mode \in {"client", "auto"}

InitialClientFilter(upd_from, mode) == Truthy(upd_from) /\ mode = "client"

\* Variant: the fallback is taken in server mode instead of auto mode.
IsFilterFallback_server_mode(status, upd_from, mode, server_filter) ==
    status = 504 /\ Truthy(upd_from) /\ mode = "server" /\ server_filter

\* the 504 branch of except requests.HTTPError
IsFilterFallback(status, upd_from, mode, server_filter) ==
    status = 504 /\ Truthy(upd_from) /\ mode = "auto" /\ server_filter

\* Variant: only 400 Bad Request is taken as non-retryable.
IsClientError_only_400(status) == status = 400

\* 400 <= status < 500 and status != 429
IsClientError(status) == 400 =< status /\ status < 500 /\ status # 429

\* Variant: the comparison is strict.
TooManyErrors_strict(n) == n > MAX_CONSECUTIVE_BATCH_ERRORS

\* consecutive_errors >= MAX_CONSECUTIVE_BATCH_ERRORS
TooManyErrors(n) == n >= MAX_CONSECUTIVE_BATCH_ERRORS

\* Variant: the offset advances by the rows written.
NextSkip_by_rows(skp, page, written_rows) == skp + Len(written_rows)

\* next_skip = skip + len(data)
NextSkip(skp, page, written_rows) == skp + Len(page)

\* Variant: a short page is not taken as the last one.
IsShortPage_never(page, top) == FALSE

\* len(data) < limit
IsShortPage(page, top) == Len(page) < top

\* Variant: every walk starts at offset 0.
StartSkip_zero(res, st, key) == 0

\* start_skip = int(country_state.get("next_skip", 0)) if args.resume else 0
StartSkip(res, st, key) ==
    IF res /\ key \in DOMAIN st THEN st[key].next_skip ELSE 0

\* written_in_run of the entry start_skip is read from
ResumedWritten(res, st, key) ==
    IF res /\ key \in DOMAIN st THEN st[key].written_in_run ELSE 0

\* Variant: a done entry does not stop the unit from being walked.
IsDoneOnResume_never(res, st, key) == FALSE

\* args.resume and country_state.get("done") is True
IsDoneOnResume(res, st, key) ==
    res /\ key \in DOMAIN st /\ st[key].done = TRUE

\* Variant: the entry is set in memory but the file is not saved.
Persist_memory_only(key, next_skip, written, done, client_filter_active) ==
    LET st == DictSet(state, key, Entry(next_skip, written, done, client_filter_active))
    IN /\ state' = st
       /\ state_file' = state_file

\* persist_country_state: the entry is set in memory, then the file is saved.
Persist(key, next_skip, written, done, client_filter_active) ==
    LET st == DictSet(state, key, Entry(next_skip, written, done, client_filter_active))
    IN /\ state' = st
       /\ state_file' = save_state(st)

\* stream_country returns: main adds the result to total and loops on.
WalkReturns ==
    /\ total' = total + total_written
    /\ unit_idx' = unit_idx + 1
    /\ pc' = "idle"

\* Variant: the writer is left as it is when the loop is left.
Finally_no_close ==
    UNCHANGED <<writer, disk>>

\* main's finally: writer.close() (session.close() holds no state here).
Finally ==
    /\ writer' = close([w |-> writer, d |-> disk]).w
    /\ disk' = disk

\* Variant: the error is caught in main's loop, which goes on to the next unit.
RaiseFatal_skip_unit ==
    /\ mpc' = mpc
    /\ pc' = "idle"
    /\ unit_idx' = unit_idx + 1
    /\ UNCHANGED <<total, writer, disk>>

\* A RuntimeError leaves stream_country and main (through main's finally).
RaiseFatal ==
    /\ mpc' = "fatal"
    /\ Finally
    /\ UNCHANGED <<pc, unit_idx, total>>

\* ---------------------------------------------------------------- main loop
\* for country / for slice: a unit marked done in the loaded state is skipped.
SkipDoneUnit ==
    /\ mpc = "running" /\ pc = "idle"
    /\ unit_idx =< Len(WorkUnits)
    /\ IsDoneOnResume(resume, state, CurKey)
    /\ unit_idx' = unit_idx + 1
    /\ UNCHANGED <<config_vars, save_vars, call_vars, writer, disk, run, resume, mpc, state, state_file, total, pc,
                   walk_vars, response, out>>

\* main calls stream_country; its locals are set up before the while loop.
BeginWalk ==
    /\ mpc = "running" /\ pc = "idle"
    /\ unit_idx =< Len(WorkUnits)
    /\ ~IsDoneOnResume(resume, state, CurKey)
    /\ LET s0 == StartSkip(resume, state, CurKey) IN
        /\ start_skip' = s0
        /\ resumed_written' = ResumedWritten(resume, state, CurKey)
        /\ offset_requests' = 0
        /\ items_received' = 0
        /\ skip' = s0
        /\ batch_count' = (s0 \div limit) + 1
    /\ total_written' = 0
    /\ consecutive_errors' = 0
    /\ use_server_updated_filter' = InitialServerFilter(updated_from, date_filter_mode)
    /\ use_client_updated_filter' = InitialClientFilter(updated_from, date_filter_mode)
    /\ data' = <<>>
    /\ rows' = <<>>
    /\ response' = NoResponse
    /\ pc' = "fetch"
    /\ UNCHANGED <<config_vars, save_vars, call_vars, writer, disk, run, resume, mpc, state, state_file, unit_idx,
                   total, out>>

\* The loops are exhausted: finally closes writer and session, main returns.
FinishRun ==
    /\ mpc = "running" /\ pc = "idle"
    /\ unit_idx > Len(WorkUnits)
    /\ mpc' = "done"
    /\ Finally
    /\ UNCHANGED <<config_vars, save_vars, call_vars, run, resume, state, state_file, unit_idx, total,
                   pc, walk_vars, response, out>>

\* ------------------------------------------------------------ stream_country
\* fetch_batch: one GET with $skip, $top and $filter; the upstream answers
\* with a page, an HTTP error status, or the transport fails.
FetchBatchWithin(streak) ==
    /\ mpc = "running" /\ pc = "fetch"
    /\ LET slice_clauses == build_slice_clauses(slice_date_field, SliceOf(unit_idx)[2],
                                                SliceOf(unit_idx)[3])
           filter == filter_clauses(CurKey[1], updated_from,
                                        use_server_updated_filter, slice_clauses)
       IN \/ response' = [kind |-> "ok", status |-> 200, skip |-> skip,
                          filter |-> filter, data |-> ServerPage(filter, skip, limit)]
          \/ /\ consecutive_errors < streak
             /\ \E status \in ErrorStatuses :
                   response' = [kind |-> "http", status |-> status, skip |-> skip,
                                filter |-> filter, data |-> <<>>]
          \/ /\ consecutive_errors < streak
             /\ response' = [kind |-> "network", status |-> 0, skip |-> skip,
                             filter |-> filter, data |-> <<>>]
    /\ pc' = "handle"
    /\ offset_requests' = Min(offset_requests + 1, MaxRequests)
    /\ UNCHANGED <<config_vars, save_vars, call_vars, writer, disk, run, resume, mpc, state, state_file, unit_idx,
                   total, start_skip, resumed_written, items_received, skip, total_written,
                   batch_count, consecutive_errors, use_server_updated_filter,
                   use_client_updated_filter, data, rows, out>>

\* The upstream may fail any request (the walk ends at the 8th failure in a row).
FetchBatch == FetchBatchWithin(MAX_CONSECUTIVE_BATCH_ERRORS)

\* The upstream fails at most MaxStreak requests in a row.
FetchBatchCalm == FetchBatchWithin(MaxStreak)

\* Variant: an empty page is reported with done=False and fetched again.
HandleEmptyPage_refetch ==
    /\ mpc = "running" /\ pc = "handle"
    /\ response.kind = "ok" /\ response.data = <<>>
    /\ consecutive_errors' = 0
    /\ data' = response.data
    /\ Persist(CurKey, skip, total_written, FALSE, use_client_updated_filter)
    /\ pc' = "fetch"
    /\ response' = NoResponse
    /\ UNCHANGED <<config_vars, save_vars, call_vars, writer, disk, run, resume, mpc, unit_idx, total, start_skip,
                   resumed_written, offset_requests, items_received, skip, total_written, batch_count,
                   use_server_updated_filter, use_client_updated_filter, rows, out>>

\* if not data: final progress with done=True, break, return.
HandleEmptyPage ==
    /\ mpc = "running" /\ pc = "handle"
    /\ response.kind = "ok" /\ response.data = <<>>
    /\ consecutive_errors' = 0
    /\ data' = response.data
    /\ Persist(CurKey, skip, total_written, TRUE, use_client_updated_filter)
    /\ WalkReturns
    /\ response' = NoResponse
    /\ UNCHANGED <<config_vars, save_vars, call_vars, writer, disk, run, resume, mpc, start_skip, resumed_written, offset_requests, items_received, skip, total_written,
                   batch_count, use_server_updated_filter,
                   use_client_updated_filter, rows, out>>

\* A non-empty page: normalize, filter client-side, write the rows.
HandlePage ==
    /\ mpc = "running" /\ pc = "handle"
    /\ response.kind = "ok" /\ response.data # <<>>
    /\ consecutive_errors' = 0
    /\ data' = response.data
    /\ LET new_rows == PageRows(response.data, use_client_updated_filter) IN
        /\ rows' = new_rows
        /\ out' = [out EXCEPT ![run] = @ \o TaggedRows(CurKey, new_rows)]
        /\ LET wd == write_rows([w |-> writer, d |-> disk], TaggedRows(CurKey, new_rows))
           IN writer' = wd.w /\ disk' = wd.d
        /\ total_written' = total_written + Len(new_rows)
    /\ items_received' = items_received + Len(response.data)
    /\ pc' = "report"
    /\ response' = NoResponse
    /\ UNCHANGED <<config_vars, save_vars, call_vars, run, resume, mpc, state, state_file, unit_idx,
                   total, start_skip, resumed_written, offset_requests, skip, batch_count,
                   use_server_updated_filter, use_client_updated_filter>>

\* progress_callback(next_skip, total_written, False); a full page moves on.
ReportProgress ==
    /\ mpc = "running" /\ pc = "report"
    /\ LET next_skip == NextSkip(skip, data, rows) IN
        /\ Persist(CurKey, next_skip, total_written, FALSE, use_client_updated_filter)
        /\ IF IsShortPage(data, limit)
           THEN /\ pc' = "report_done"
                /\ UNCHANGED <<skip, batch_count, data, rows, offset_requests>>
           ELSE /\ pc' = "fetch"
                /\ skip' = next_skip
                /\ offset_requests' = IF next_skip = skip THEN offset_requests ELSE 0
                /\ batch_count' = batch_count + 1
                /\ data' = <<>>
                /\ rows' = <<>>
    /\ UNCHANGED <<config_vars, save_vars, call_vars, writer, disk, run, resume, mpc, unit_idx, total, start_skip, resumed_written, items_received,
                   total_written, consecutive_errors, use_server_updated_filter,
                   use_client_updated_filter, response, out>>

\* len(data) < limit: progress_callback(next_skip, total_written, True), break.
ReportDone ==
    /\ mpc = "running" /\ pc = "report_done"
    /\ Persist(CurKey, NextSkip(skip, data, rows), total_written, TRUE,
               use_client_updated_filter)
    /\ WalkReturns
    /\ UNCHANGED <<config_vars, save_vars, call_vars, writer, disk, run, resume, mpc, walk_vars, response, out>>

\* HTTP 504 on the server-side updated filter in auto mode: switch to the
\* client-side filter and continue the loop at the same skip.
HandleFilterFallback ==
    /\ mpc = "running" /\ pc = "handle"
    /\ response.kind = "http"
    /\ IsFilterFallback(response.status, updated_from, date_filter_mode,
                        use_server_updated_filter)
    /\ use_server_updated_filter' = FALSE
    /\ use_client_updated_filter' = TRUE
    /\ pc' = "fetch"
    /\ response' = NoResponse
    /\ UNCHANGED <<config_vars, save_vars, call_vars, writer, disk, run, resume, mpc, state, state_file, unit_idx,
                   total, start_skip, resumed_written, offset_requests, items_received, skip, total_written, batch_count,
                   consecutive_errors, data, rows, out>>

\* HTTP 4xx other than 429: RuntimeError at once.
HandleClientError ==
    /\ mpc = "running" /\ pc = "handle"
    /\ response.kind = "http"
    /\ ~IsFilterFallback(response.status, updated_from, date_filter_mode,
                         use_server_updated_filter)
    /\ IsClientError(response.status)
    /\ RaiseFatal
    /\ response' = NoResponse
    /\ UNCHANGED <<config_vars, save_vars, call_vars, run, resume, state, state_file, walk_vars, out>>

\* Any other HTTP error: count it; RuntimeError at the bound, else retry.
HandleHttpError ==
    /\ mpc = "running" /\ pc = "handle"
    /\ response.kind = "http"
    /\ ~IsFilterFallback(response.status, updated_from, date_filter_mode,
                         use_server_updated_filter)
    /\ ~IsClientError(response.status)
    /\ consecutive_errors' = consecutive_errors + 1
    /\ IF TooManyErrors(consecutive_errors + 1)
       THEN RaiseFatal
       ELSE /\ pc' = "fetch"
            /\ UNCHANGED <<mpc, unit_idx, total, writer, disk>>
    /\ response' = NoResponse
    /\ UNCHANGED <<config_vars, save_vars, call_vars, run, resume, state, state_file, start_skip, resumed_written, offset_requests, items_received, skip,
                   total_written, batch_count, use_server_updated_filter,
                   use_client_updated_filter, data, rows, out>>

\* requests.RequestException other than HTTPError: same counting.
HandleNetworkError ==
    /\ mpc = "running" /\ pc = "handle"
    /\ response.kind = "network"
    /\ consecutive_errors' = consecutive_errors + 1
    /\ IF TooManyErrors(consecutive_errors + 1)
       THEN RaiseFatal
       ELSE /\ pc' = "fetch"
            /\ UNCHANGED <<mpc, unit_idx, total, writer, disk>>
    /\ response' = NoResponse
    /\ UNCHANGED <<config_vars, save_vars, call_vars, run, resume, state, state_file, start_skip, resumed_written, offset_requests, items_received, skip,
                   total_written, batch_count, use_server_updated_filter,
                   use_client_updated_filter, data, rows, out>>

\* ------------------------------------------------------- kill and re-run
\* What is left of a process that is gone: nothing of its memory.
ProcessGone ==
    /\ unit_idx' = 1
    /\ total' = 0
    /\ pc' = "idle"
    /\ start_skip' = 0
    /\ resumed_written' = 0
    /\ offset_requests' = 0
    /\ items_received' = 0
    /\ skip' = 0
    /\ total_written' = 0
    /\ batch_count' = 0
    /\ consecutive_errors' = 0
    /\ use_server_updated_filter' = FALSE
    /\ use_client_updated_filter' = FALSE
    /\ response' = NoResponse
    /\ data' = <<>>
    /\ rows' = <<>>

\* An external kill signal ends the process wherever it is; the state file
\* and the rows already written stay.
Kill ==
    /\ mpc = "running"
    /\ mpc' = "killed"
    /\ state' = EmptyDict
    /\ ProcessGone
    /\ writer' = CsvPartWriter(writer.filename, writer.max_rows_per_file)
    /\ UNCHANGED <<config_vars, save_vars, call_vars, disk, run, resume, state_file, out>>

\* A kill inside writer.write_rows: only the first k rows were written.
KillDuringWrite ==
    /\ mpc = "running" /\ pc = "handle"
    /\ response.kind = "ok"
    /\ LET new_rows == PageRows(response.data, use_client_updated_filter) IN
       \E k \in 1..(Len(new_rows) - 1) :
          /\ out' = [out EXCEPT ![run] = @ \o TaggedRows(CurKey, SubSeq(new_rows, 1, k))]
          /\ disk' = write_rows([w |-> writer, d |-> disk],
                                TaggedRows(CurKey, SubSeq(new_rows, 1, k))).d
    /\ mpc' = "killed"
    /\ state' = EmptyDict
    /\ ProcessGone
    /\ writer' = CsvPartWriter(writer.filename, writer.max_rows_per_file)
    /\ UNCHANGED <<config_vars, save_vars, call_vars, run, resume, state_file>>

\* The arguments of a re-run: the same ones, with or without --resume, or,
\* with --resume on an existing state file, another --date-filter-mode.
RerunArgs ==
    {[resume |-> r, date_filter_mode |-> m] :
        r \in BOOLEAN, m \in DateFilterModes}

\* The export is started again: state is loaded from the file or starts
\* empty, and a resumed run whose signature differs from the stored one
\* ends in a ValueError before anything else is done.  (A run that ended by
\* itself leaves the files that a kill just before its exit leaves, so
\* re-runs after a kill cover the re-runs after every end.)
Rerun ==
    /\ mpc = "killed"
    /\ run < MaxRuns
    /\ run' = run + 1
    /\ ProcessGone
    /\ \E a \in RerunArgs :
        /\ a.date_filter_mode # date_filter_mode => (a.resume /\ state_file.exists)
        /\ resume' = a.resume
        /\ date_filter_mode' = a.date_filter_mode
        /\ IF SignatureMismatch(a.resume, StoredSignature(state_file),
                                signature(countries, updated_from,
                                          a.date_filter_mode, slice_by))
           THEN /\ mpc' = "config_error"
                /\ state' = EmptyDict
           ELSE /\ mpc' = "running"
                /\ state' = IF a.resume THEN load_state(state_file) ELSE EmptyDict
    /\ writer' = CsvPartWriter(output_name(countries, updated_from, run + 1),
                               writer.max_rows_per_file)
    /\ UNCHANGED <<countries, slice_by, limit, updated_from, upstream,
                   save_vars, call_vars, state_file, out, disk>>

\* KeyboardInterrupt is raised somewhere inside main's try block: no except
\* clause catches it, it leaves main through the finally.
Interrupt ==
    /\ mpc = "running"
    /\ mpc' = "interrupted"
    /\ Finally
    /\ UNCHANGED <<export_vars_but_mpc, save_vars, call_vars, out>>

\* One fresh export run (no --resume) from start to its end.
Next ==
    \/ BeginWalk
    \/ FinishRun
    \/ FetchBatch
    \/ HandleEmptyPage
    \/ HandlePage
    \/ ReportProgress
    \/ ReportDone
    \/ HandleFilterFallback
    \/ HandleClientError
    \/ HandleHttpError
    \/ HandleNetworkError

Spec == Init /\ [][Next]_vars

\* One fresh export run that the user may interrupt at any point.
NextInterrupt ==
    \/ BeginWalk
    \/ FinishRun
    \/ FetchBatch
    \/ HandleEmptyPage
    \/ HandlePage
    \/ ReportProgress
    \/ ReportDone
    \/ HandleFilterFallback
    \/ HandleClientError
    \/ HandleHttpError
    \/ HandleNetworkError
    \/ Interrupt

SpecInterrupt == Init /\ [][NextInterrupt]_vars

\* Runs that can be killed at any point and started again, with or without
\* --resume, against the same upstream.
NextResume ==
    \/ SkipDoneUnit
    \/ BeginWalk
    \/ FinishRun
    \/ FetchBatchCalm
    \/ HandleEmptyPage
    \/ HandlePage
    \/ ReportProgress
    \/ ReportDone
    \/ HandleFilterFallback
    \/ HandleClientError
    \/ HandleHttpError
    \/ HandleNetworkError
    \/ Kill
    \/ KillDuringWrite
    \/ Rerun

\* The re-run scenarios start from the unsliced two-country layout.
InitResume == Init /\ slice_by = "none"

SpecResume == InitResume /\ [][NextResume]_vars

\* One fresh run of the unsliced layout in --date-filter-mode auto (the
\* mode in which a walk can go through every handler), of a process that
\* takes its next step whenever it has one: each request is answered, each
\* answer handled.
InitFair == InitResume /\ date_filter_mode = "auto"

SpecFair == InitFair /\ [][Next]_vars /\ WF_vars(Next)

\* ---------------------------------------------- save_state, step by step
\* No export is running: the variables of main and stream_country at rest.
ParkedRun ==
    /\ countries = <<"KG">> /\ slice_by = "none"
    /\ limit = 1
    /\ updated_from = None
    /\ date_filter_mode = "auto"
    /\ upstream = <<>>
    /\ run = 1
    /\ resume = FALSE
    /\ mpc = "none"
    /\ state = EmptyDict
    /\ state_file = [exists |-> FALSE, countries |-> EmptyDict,
                     signature |-> EmptyDict]
    /\ unit_idx = 1
    /\ total = 0
    /\ pc = "idle"
    /\ start_skip = 0
    /\ resumed_written = 0
    /\ offset_requests = 0
    /\ items_received = 0
    /\ skip = 0
    /\ total_written = 0
    /\ batch_count = 0
    /\ consecutive_errors = 0
    /\ use_server_updated_filter = FALSE
    /\ use_client_updated_filter = FALSE
    /\ response = NoResponse
    /\ data = <<>>
    /\ rows = <<>>

\* save_state(path, state) is called.
SaveCall ==
    /\ save_pc = "idle"
    /\ \E st \in SaveStates : save_arg' = st
    /\ save_pc' = "open"
    /\ UNCHANGED <<export_vars, out, writer, disk, fs, call_vars>>

\* open(tmp_path, "w"): the temp file is created or truncated.
save_state_open ==
    /\ save_pc = "open"
    /\ fs' = DictSet(fs, tmp_path(StatePath), [text |-> save_arg, written |-> 0])
    /\ save_pc' = "dump"
    /\ UNCHANGED <<export_vars, out, writer, disk, save_arg, call_vars>>

\* json.dump: one more piece reaches the file; after the last one the with
\* block closes it.
save_state_dump ==
    /\ save_pc = "dump"
    /\ LET tmp == tmp_path(StatePath) IN
        /\ fs[tmp].written < JsonChunks(fs[tmp].text)
        /\ fs' = [fs EXCEPT ![tmp].written = @ + 1]
        /\ save_pc' = IF fs[tmp].written + 1 = JsonChunks(fs[tmp].text)
                      THEN "replace" ELSE "dump"
    /\ UNCHANGED <<export_vars, out, writer, disk, save_arg, call_vars>>

\* os.replace(tmp_path, path); save_state returns.
save_state_replace ==
    /\ save_pc = "replace"
    /\ fs' = os_replace(fs, tmp_path(StatePath), StatePath)
    /\ save_pc' = "idle"
    /\ UNCHANGED <<export_vars, out, writer, disk, save_arg, call_vars>>

\* The process dies inside save_state, at any of its steps.
SaveCrash ==
    /\ save_pc \in {"open", "dump", "replace"}
    /\ save_pc' = "dead"
    /\ UNCHANGED <<export_vars, out, writer, disk, fs, save_arg, call_vars>>

\* A new process starts; the files are as the dead one left them.
SaveRestart ==
    /\ save_pc = "dead"
    /\ save_pc' = "idle"
    /\ save_arg' = EmptyDict
    /\ UNCHANGED <<export_vars, out, writer, disk, fs, call_vars>>

InitSave ==
    /\ ParkedRun
    /\ CallIdle
    /\ out = [r \in 1..MaxRuns |-> <<>>]
    /\ writer = CsvPartWriter(FileName("export", ".csv", TRUE), RunRowsPerFile)
    /\ disk = EmptyDict
    /\ SaveIdle

NextSave ==
    \/ SaveCall
    \/ save_state_open
    \/ save_state_dump
    \/ save_state_replace
    \/ SaveCrash
    \/ SaveRestart

SpecSave == InitSave /\ [][NextSave]_vars

\* --------------------------------------------- CsvPartWriter on its own
MaxWrites == 2 * MaxRowsPerFile + 5

\* "./export": an --output path whose only "." lies in its directory part;
\* rsplit(".", 1) splits it into "" and "/export".
DottedDirName == FileName("", "./export", TRUE)

\* File names with and without an extension.
WriterFileNames ==
    {FileName("export", ".csv", TRUE), FileName("export", "", FALSE), DottedDirName}

\* close() has been called on a writer that had opened a part.
WriterClosed == writer._file = None /\ writer.files_created # <<>>

\* writer.write_row(row): the rows handed in are told apart by their number.
WriteRow ==
    /\ ~WriterClosed
    /\ Len(out[run]) < MaxWrites
    /\ LET row == Len(out[run]) + 1
           wd == write_row([w |-> writer, d |-> disk], row)
       IN /\ out' = [out EXCEPT ![run] = Append(@, row)]
          /\ writer' = wd.w
          /\ disk' = wd.d
    /\ UNCHANGED <<export_vars, save_vars, call_vars>>

\* writer.close(), as main's finally calls it, whatever was written before
Close ==
    /\ writer' = close([w |-> writer, d |-> disk]).w
    /\ UNCHANGED <<export_vars, save_vars, call_vars, out, disk>>

InitWriter ==
    /\ ParkedRun
    /\ CallIdle
    /\ SaveIdle
    /\ out = [r \in 1..MaxRuns |-> <<>>]
    /\ disk = EmptyDict
    /\ \E m \in 1..MaxRowsPerFile, name \in WriterFileNames :
          writer = CsvPartWriter(name, m)

NextWriter ==
    \/ WriteRow
    \/ Close

SpecWriter == InitWriter /\ [][NextWriter]_vars

\* ------------------------------------------------ functions on their own
\* The export process, its writer and save_state stand still.
ParkedProcess ==
    /\ ParkedRun
    /\ SaveIdle
    /\ out = [r \in 1..MaxRuns |-> <<>>]
    /\ writer = CsvPartWriter(FileName("export", ".csv", TRUE), RunRowsPerFile)
    /\ disk = EmptyDict

parked_vars == <<export_vars, save_vars, out, writer, disk>>

\* The call held in call has returned.
Returned == result # NoCall

\* The call held in call returns ret.
Return(ret) ==
    /\ result = NoCall
    /\ result' = [value |-> ret]
    /\ UNCHANGED <<parked_vars, call>>

\* ---------------------------------------------------- iter_time_slices
MaxYears == 2
MidDay == 15

SliceYears == slice_start_dt[1]..(slice_start_dt[1] + MaxYears - 1)

\* The window bounds tried: the first, a middle and the last day of a month.
WindowDates ==
    UNION {{datetime(y, m, d) : d \in {1, MidDay, DaysInMonth(y, m)}} :
              <<y, m>> \in SliceYears \X (1..12)}

SliceModes == {"none", "month", "year"}

\* main refuses slice_end_dt < slice_start_dt before the call.
InitSlices ==
    /\ ParkedProcess
    /\ result = NoCall
    /\ \E by \in SliceModes, start_utc \in WindowDates, end_utc \in WindowDates :
          /\ DateLE(start_utc, end_utc)
          /\ call = [f |-> "iter_time_slices", slice_by |-> by,
                     start_utc |-> start_utc, end_utc |-> end_utc]

IterTimeSlices ==
    /\ call.f = "iter_time_slices"
    /\ Return(iter_time_slices(call.slice_by, call.start_utc, call.end_utc))

NextSlices == IterTimeSlices

SpecSlices == InitSlices /\ [][NextSlices]_vars

\* ---------------------------------------------------------- Python values
\* A value of the JSON-like data the program handles, tagged by its type:
\* a str is ws + str + ws, where ws is white space and str has none at its ends.
PyStr(s) == [str |-> s, ws |-> ""]
PyPadded(s) == [str |-> s, ws |-> " "]
PyInt(n) == [int |-> n]
PyFloat(text) == [float |-> text]
PyBool(b) == [bool |-> b]
PyNone == [none |-> "None"]
PyList(items) == [list |-> items]
\* a dict: its (key, value) entries in insertion order
PyDict(entries) == [dict |-> entries]

IsStr(v) == DOMAIN v = {"str", "ws"}
IsList(v) == DOMAIN v = {"list"}
IsDict(v) == DOMAIN v = {"dict"}

\* type(v).__name__
type_name(v) ==
    IF IsStr(v) THEN "str"
    ELSE IF IsList(v) THEN "list"
    ELSE IF IsDict(v) THEN "dict"
    ELSE IF DOMAIN v = {"int"} THEN "int"
    ELSE IF DOMAIN v = {"float"} THEN "float"
    ELSE IF DOMAIN v = {"bool"} THEN "bool"
    ELSE "NoneType"

\* the text of a str, and text.strip()
text_of(v) == v.ws \o v.str \o v.ws
strip(v) == v.str

\* bool(v)
py_bool(v) ==
    IF IsStr(v) THEN text_of(v) # ""
    ELSE IF IsList(v) THEN v.list # <<>>
    ELSE IF IsDict(v) THEN v.dict # <<>>
    ELSE IF DOMAIN v = {"int"} THEN v.int # 0
    ELSE IF DOMAIN v = {"bool"} THEN v.bool
    ELSE IF DOMAIN v = {"float"} THEN TRUE
    ELSE FALSE

\* key in d, d[key] (d.get(key, default)) and d[key] = value
HasKey(d, key) == \E i \in 1..Len(d.dict) : d.dict[i][1] = key

dict_get(d, key, default) ==
    IF HasKey(d, key)
    THEN d.dict[CHOOSE i \in 1..Len(d.dict) : d.dict[i][1] = key][2]
    ELSE default

dict_set(d, key, value) ==
    IF HasKey(d, key)
    THEN PyDict([i \in 1..Len(d.dict) |->
                    IF d.dict[i][1] = key THEN <<key, value>> ELSE d.dict[i]])
    ELSE PyDict(Append(d.dict, <<key, value>>))

\* str(v) of a scalar
py_str(v) ==
    IF IsStr(v) THEN text_of(v)
    ELSE IF DOMAIN v = {"int"} THEN ToString(v.int)
    ELSE IF DOMAIN v = {"float"} THEN v.float
    ELSE IF DOMAIN v = {"bool"} THEN (IF v.bool THEN "True" ELSE "False")
    ELSE "None"

\* json.dumps(v, ensure_ascii=False) of lists of numbers and strings
RECURSIVE json_dumps(_)
json_dumps(v) ==
    IF IsList(v)
    THEN LET RECURSIVE joined(_)
             joined(items) ==
                 IF items = <<>> THEN ""
                 ELSE IF Len(items) = 1 THEN json_dumps(items[1])
                 ELSE json_dumps(Head(items)) \o ", " \o joined(Tail(items))
         IN "[" \o joined(v.list) \o "]"
    ELSE IF IsStr(v) THEN "\"" \o text_of(v) \o "\""
    ELSE py_str(v)

\* json.loads raised JSONDecodeError
JSONDecodeError == [error |-> "JSONDecodeError"]

\* The country field in flat and in nested form.
COUNTRY_FIELD == "unifiedCountryCode.value"
VALID_COUNTRY_CODES == <<"AM", "BY", "KG", "KZ", "RU">>

\* Documents as the API sends them.
NestedDoc(code) ==
    PyDict(<< <<"docId", PyStr("123")>>,
              <<"unifiedCountryCode", PyDict(<< <<"value", PyStr(code)>> >>)>> >>)
FlatDoc(value) ==
    PyDict(<< <<"docId", PyStr("123")>>, <<COUNTRY_FIELD, value>> >>)
BareDoc == PyDict(<< <<"docId", PyStr("123")>> >>)

\* json.loads(text) of the texts that occur: what a text denotes is fixed by
\* the JSON grammar; every other text is not JSON.
json_loads(text) ==
    IF text = "{\"docId\": \"123\"}" THEN BareDoc
    ELSE IF text = "{\"docId\": \"123\", \"unifiedCountryCode.value\": \"RU\"}"
         THEN FlatDoc(PyStr("RU"))
    ELSE IF text = "{}" THEN PyDict(<<>>)
    ELSE IF text = "[1, 2]" THEN PyList(<<PyInt(1), PyInt(2)>>)
    ELSE IF text = "5" THEN PyInt(5)
    ELSE IF text = "null" THEN PyNone
    ELSE JSONDecodeError

\* Variant: the raw types bear the names of JSON.
raw_row_json_names(item) ==
    IF IsDict(item) THEN item
    ELSE IF IsList(item)
    THEN PyDict(<< <<"_raw_value", PyStr(json_dumps(item))>>,
                   <<"_raw_type", PyStr("array")>> >>)
    ELSE IF IsStr(item) /\ strip(item) # "" /\ IsDict(json_loads(strip(item)))
    THEN json_loads(strip(item))
    ELSE PyDict(<< <<"_raw_value", item>>,
                   <<"_raw_type",
                     PyStr(IF IsStr(item) THEN "string" ELSE type_name(item))>> >>)

\* normalize_record up to the country field: the row made of the item
raw_row(item) ==
    IF IsDict(item) THEN item
    ELSE IF IsStr(item)
    THEN LET stripped == strip(item)
             parsed == IF stripped # "" THEN json_loads(stripped) ELSE PyNone
         IN IF IsDict(parsed) THEN parsed
            ELSE PyDict(<< <<"_raw_value", item>>,
                           <<"_raw_type", PyStr("str")>> >>)
    ELSE IF IsList(item)
    THEN PyDict(<< <<"_raw_value", PyStr(json_dumps(item))>>,
                   <<"_raw_type", PyStr("list")>> >>)
    ELSE PyDict(<< <<"_raw_value", item>>,
                   <<"_raw_type", PyStr(type_name(item))>> >>)

\* Variant: the row is returned as it was made.
normalize_record_as_is(item, country_code) == raw_row(item)

\* Variant: the country field is set whatever the row holds.
normalize_record_stamping(item, country_code) ==
    dict_set(raw_row(item), COUNTRY_FIELD, PyStr(country_code))

\* normalize_record
normalize_record(item, country_code) ==
    LET row == raw_row(item) IN
    IF ~HasKey(row, COUNTRY_FIELD)
       \/ ~py_bool(dict_get(row, COUNTRY_FIELD, PyNone))
    THEN dict_set(row, COUNTRY_FIELD, PyStr(country_code))
    ELSE row

\* ----------------------------------------------------- normalize_record
\* The items tried: documents with the country field in nested form, in
\* flat form (set, empty, blank, null) and without it; strings that are a
\* JSON object, other JSON, no JSON, empty; arrays; other scalars.
DictItems ==
    {NestedDoc(VALID_COUNTRY_CODES[i]) : i \in 1..Len(VALID_COUNTRY_CODES)}
    \cup {FlatDoc(PyStr(VALID_COUNTRY_CODES[i])) : i \in 1..Len(VALID_COUNTRY_CODES)}
    \cup {FlatDoc(PyStr("")), FlatDoc(PyNone), FlatDoc(PyPadded("")),
          BareDoc, PyDict(<<>>)}

StrItems ==
    {PyStr("{\"docId\": \"123\"}"), PyPadded("{\"docId\": \"123\"}"),
     PyStr("{\"docId\": \"123\", \"unifiedCountryCode.value\": \"RU\"}"),
     PyStr("{}"), PyStr("[1, 2]"), PyStr("5"), PyStr("null"),
     PyStr("{\"docId\": "), PyStr("not json"), PyStr(""), PyPadded("")}

ListItems ==
    {PyList(<<>>), PyList(<<PyInt(1), PyInt(2), PyInt(3)>>),
     PyList(<<PyStr("a")>>)}

ScalarItems == {PyInt(5), PyInt(0), PyFloat("1.5"), PyBool(TRUE), PyNone}

Items == DictItems \cup StrItems \cup ListItems \cup ScalarItems

InitNormalize ==
    /\ ParkedProcess
    /\ result = NoCall
    /\ \E item \in Items, i \in 1..Len(VALID_COUNTRY_CODES) :
          call = [f |-> "normalize_record", item |-> item,
                  country_code |-> VALID_COUNTRY_CODES[i]]

NormalizeRecord ==
    /\ call.f = "normalize_record"
    /\ Return(normalize_record(call.item, call.country_code))

NextNormalize == NormalizeRecord

SpecNormalize == InitNormalize /\ [][NextNormalize]_vars

\* ----------------------------------------------------- flatten_for_humans
\* [t for t in texts if t]
NonEmpty(texts) == SelectSeq(texts, LAMBDA t : t # "")

\* The tokens a scalar is emptied for, in download_eaeu_odata_csv.py and in
\* download_eaeu_archives.py.
SentinelTokens == {"None", "nan", "NaN", "null", "[]", "{}"}
ArchiveSentinelTokens == {"None", "nan", "null", "[]", "{}"}

\* str(value).strip()
stripped_str(value) == IF IsStr(value) THEN strip(value) ELSE py_str(value)

\* flatten_for_humans of download_eaeu_odata_csv.py
RECURSIVE flatten_for_humans(_)
flatten_for_humans(value) ==
    IF IsList(value)
    THEN join(" | ", NonEmpty([i \in 1..Len(value.list) |->
                                  flatten_for_humans(value.list[i])]))
    ELSE IF IsDict(value)
    THEN LET part(i) ==
                 LET flat == flatten_for_humans(value.dict[i][2]) IN
                 IF flat # "" THEN value.dict[i][1] \o ": " \o flat ELSE ""
         IN join("; ", NonEmpty([i \in 1..Len(value.dict) |-> part(i)]))
    ELSE LET text == IF value = PyNone THEN "" ELSE stripped_str(value) IN
         IF text \in SentinelTokens THEN "" ELSE text

\* flatten_for_humans of download_eaeu_archives.py
RECURSIVE flatten_for_humans_archives(_)
flatten_for_humans_archives(value) ==
    IF IsList(value)
    THEN LET kept == SelectSeq(value.list, py_bool) IN
         join(" | ", [i \in 1..Len(kept) |-> flatten_for_humans_archives(kept[i])])
    ELSE IF IsDict(value)
    THEN LET kept == SelectSeq(value.dict, LAMBDA e : py_bool(e[2])) IN
         join("; ", [i \in 1..Len(kept) |->
                        kept[i][1] \o ": " \o flatten_for_humans_archives(kept[i][2])])
    ELSE LET text == stripped_str(value) IN
         IF text \in ArchiveSentinelTokens THEN "" ELSE text

\* The values tried: scalars (the sentinel tokens, bare and inside white
\* space, among them), lists and mappings of them, and one more level.
MaxListLen == 2

FlatScalars ==
    {PyStr(t) : t \in SentinelTokens} \cup
    {PyStr("x"), PyStr(""), PyPadded(""), PyPadded("NaN"), PyPadded("x"),
     PyNone, PyFloat("nan"), PyInt(0), PyBool(FALSE)}

FlatKeys == <<"a", "b", "c">>

ListsOf(S) == {PyList(items) : items \in SeqOf(S, MaxListLen)}
DictsOf(S) ==
    {PyDict([i \in 1..Len(values) |-> <<FlatKeys[i], values[i]>>]) :
        values \in SeqOf(S, MaxListLen)}

FlatLevel1 == ListsOf(FlatScalars) \cup DictsOf(FlatScalars)

FlatLevel2 ==
    {PyList(<<u>>) : u \in FlatLevel1} \cup
    {PyDict(<< <<"k", u>> >>) : u \in FlatLevel1} \cup
    {PyList(<<PyStr("x"), u>>) : u \in FlatLevel1} \cup
    {PyDict(<< <<"k", u>>, <<"n", PyStr("null")>> >>) : u \in FlatLevel1}

FlatValues == FlatScalars \cup FlatLevel1 \cup FlatLevel2

FlattenVersions == {"flatten_for_humans", "archives.flatten_for_humans"}

InitFlatten ==
    /\ ParkedProcess
    /\ result = NoCall
    /\ \E value \in FlatValues, f \in FlattenVersions :
          call = [f |-> f, value |-> value]

FlattenForHumans ==
    /\ call.f = "flatten_for_humans"
    /\ Return(flatten_for_humans(call.value))

FlattenForHumansArchives ==
    /\ call.f = "archives.flatten_for_humans"
    /\ Return(flatten_for_humans_archives(call.value))

NextFlatten ==
    \/ FlattenForHumans
    \/ FlattenForHumansArchives

SpecFlatten == InitFlatten /\ [][NextFlatten]_vars

\* ----------------------------------------------------- build_odata_filter
\* no updated_from, or one as normalize_utc_timestamp returns it
FilterThresholds == UpdatedFromValues \cup {"2025-01-01T00:00:00.00Z"}

SliceDateFields == {"docStartDate", "docCreationDate"}

\* extra_clauses: none, or the clauses of a slice
ExtraClauses ==
    {<<>>} \cup
    {build_slice_clauses(field, slice[2], slice[3]) :
        field \in SliceDateFields,
        slice \in {iter_time_slices(by, slice_start_dt, slice_end_dt)[1] :
                      by \in SliceModes}}

InitFilter ==
    /\ ParkedProcess
    /\ result = NoCall
    /\ \E i \in 1..Len(VALID_COUNTRY_CODES), upd_from \in FilterThresholds,
          apply \in BOOLEAN, extra \in ExtraClauses :
          call = [f |-> "build_odata_filter",
                  country_code |-> VALID_COUNTRY_CODES[i],
                  updated_from |-> upd_from,
                  apply_server_updated_filter |-> apply,
                  extra_clauses |-> extra]

BuildOdataFilter ==
    /\ call.f = "build_odata_filter"
    /\ Return(build_odata_filter(call.country_code, call.updated_from,
                                 call.apply_server_updated_filter,
                                 call.extra_clauses))

NextFilter == BuildOdataFilter

SpecFilter == InitFilter /\ [][NextFilter]_vars

\* ------------------------------------------------ record_to_selected_row
\* An exception raised and not caught.
Raised(name) == [error |-> name]
IsError(v) == DOMAIN v = {"error"}

\* The texts that start with "[" and end with "]", or with "{" and "}".
BracketedTexts ==
    {"[1, 2]", "{}", "{\"docId\": \"123\"}",
     "{\"docId\": \"123\", \"unifiedCountryCode.value\": \"RU\"}",
     "[{\"businessEntityName\": \"Acme\"}]", "{'businessEntityName': 'Acme'}",
     "[abc]", "[1,,2]", "{[1]: 2}"}

\* json.loads of the structured texts of fields
json_loads_field(text) ==
    IF text = "[{\"businessEntityName\": \"Acme\"}]"
    THEN PyList(<<PyDict(<< <<"businessEntityName", PyStr("Acme")>> >>)>>)
    ELSE json_loads(text)

\* ast.literal_eval(text) of the bracketed texts that are not JSON: a Python
\* literal, or the exception raised; a dict display with a list as key is
\* well-formed syntax and fails with TypeError (unhashable type) when built.
literal_eval(text) ==
    IF text = "{'businessEntityName': 'Acme'}"
    THEN PyDict(<< <<"businessEntityName", PyStr("Acme")>> >>)
    ELSE IF text = "[1,,2]" THEN Raised("SyntaxError")
    ELSE IF text = "{[1]: 2}" THEN Raised("TypeError")
    ELSE Raised("ValueError")

\* parse_structured_value: the parsed value, or the exception that escapes
parse_structured_value(value) ==
    IF value = PyNone THEN PyStr("")
    ELSE IF IsList(value) \/ IsDict(value) THEN value
    ELSE IF ~IsStr(value) THEN value
    ELSE LET text == strip(value) IN
         IF text = "" \/ text \in {"[]", "{}", "None", "nan", "NaN", "null"}
         THEN PyStr("")
         ELSE IF text \in BracketedTexts
         THEN IF json_loads_field(text) # JSONDecodeError
              THEN json_loads_field(text)
              ELSE LET literal == literal_eval(text) IN
                   IF literal \in {Raised("ValueError"), Raised("SyntaxError")}
                   THEN value
                   ELSE literal
         ELSE value

\* get_nested; path is path.split(".")
RECURSIVE get_nested(_, _, _)
get_nested(obj, path, default) ==
    IF path = <<>> THEN obj
    ELSE IF IsDict(obj) /\ HasKey(obj, Head(path))
    THEN get_nested(dict_get(obj, Head(path), default), Tail(path), default)
    ELSE default

\* A field name with its split(".").
Field(name, path) == [name |-> name, path |-> path]

\* get_date_value
get_date_value(record, field) ==
    LET direct == dict_get(record, field.name, PyStr(""))
        nested == IF IsDict(direct) THEN dict_get(direct, "$date", PyStr(""))
                  ELSE PyStr("")
        dotted == dict_get(record, field.name \o ".$date", PyStr(""))
        nested_by_path == get_nested(record, Append(field.path, "$date"), PyStr(""))
    IN IF IsDict(direct) /\ py_bool(nested) THEN nested
       ELSE IF py_bool(direct) THEN direct
       ELSE IF py_bool(dotted) THEN dotted
       ELSE IF py_bool(nested_by_path) THEN nested_by_path
       ELSE PyStr("")

\* datetime.fromisoformat(text.replace("Z", "+00:00")): the day the text
\* names, as written and in UTC, or ValueError.
fromisoformat(text) ==
    IF text = "2024-12-31T00:00:00Z"
    THEN [local |-> datetime(2024, 12, 31), utc |-> datetime(2024, 12, 31)]
    ELSE IF text = "2025-01-01T00:00:00Z"
    THEN [local |-> datetime(2025, 1, 1), utc |-> datetime(2025, 1, 1)]
    ELSE IF text = "2025-01-01T01:00:00+03:00"
    THEN [local |-> datetime(2025, 1, 1), utc |-> datetime(2024, 12, 31)]
    ELSE IF text = "2025-06-24T01:02:03Z"
    THEN [local |-> datetime(2025, 6, 24), utc |-> datetime(2025, 6, 24)]
    ELSE Raised("ValueError")

\* to_ddmmyyyy
to_ddmmyyyy(value) ==
    LET text == flatten_for_humans(value) IN
    IF text = "" THEN ""
    ELSE LET dt == fromisoformat(text) IN
         IF IsError(dt) THEN ""
         ELSE Pad2(dt.local[3]) \o "." \o Pad2(dt.local[2]) \o "." \o Pad4(dt.local[1])

\* dict.fromkeys(values): the first occurrence of each
RECURSIVE fromkeys(_)
fromkeys(values) ==
    IF values = <<>> THEN <<>>
    ELSE LET front == fromkeys(SubSeq(values, 1, Len(values) - 1))
             last == values[Len(values)]
         IN IF \E i \in 1..Len(front) : front[i] = last THEN front
            ELSE Append(front, last)

\* extract_from_structured: the text as a str value, or the exception that
\* escapes
extract_from_structured(value, key) ==
    LET parsed == parse_structured_value(value) IN
    IF IsError(parsed) THEN parsed
    ELSE IF IsDict(parsed)
    THEN PyStr(flatten_for_humans(dict_get(parsed, key, PyStr(""))))
    ELSE IF IsList(parsed)
    THEN LET with_key == SelectSeq(parsed.list,
                                   LAMBDA item : IsDict(item) /\ HasKey(item, key))
             values == NonEmpty([i \in 1..Len(with_key) |->
                          flatten_for_humans(dict_get(with_key[i], key, PyStr("")))])
         IN PyStr(join(" | ", fromkeys(values)))
    ELSE PyStr("")

\* The two status texts and the country names of COUNTRY_NAMES_RU, which
\* are Russian, in Latin letters.
StatusValid == "deystvuet"
StatusEnded == "prekrashchen"
COUNTRY_NAMES_RU ==
    ("AM" :> "Armeniya") @@ ("BY" :> "Belarus") @@ ("KG" :> "Kyrgyzstan")
    @@ ("KZ" :> "Kazakhstan") @@ ("RU" :> "Rossiya")

\* the note text holds the stem of the word for "ended"
NoteSaysEnded(note_text) == note_text \in {"prekrashcheno po zayavleniyu"}

\* status_from_record; now is the day of datetime.now(timezone.utc), some
\* time after midnight.
status_from_record(record, now) ==
    LET end_date_raw == get_date_value(record, Field("docValidityDate", <<"docValidityDate">>))
        status_code == flatten_for_humans(
            get_nested(record, <<"docStatusDetails", "docStatusCode">>, PyStr("")))
        note_text == flatten_for_humans(
            get_nested(record, <<"docStatusDetails", "noteText">>, PyStr("")))
        end_text == flatten_for_humans(end_date_raw)
        end_dt == fromisoformat(end_text)
    IN IF end_text # "" /\ ~IsError(end_dt)
       THEN (IF DateLT(now, end_dt.utc) THEN StatusValid ELSE StatusEnded)
       ELSE IF NoteSaysEnded(note_text) THEN StatusEnded
       ELSE IF status_code \in {"09", "10"} THEN StatusEnded
       ELSE IF status_code # "" THEN StatusValid
       ELSE ""

\* record_to_selected_row: the row, or the exception that escapes
record_to_selected_row(record, now) ==
    LET country_code == flatten_for_humans(dict_get(record, COUNTRY_FIELD, PyStr("")))
        applicant == flatten_for_humans(
            get_nested(record, <<"applicantDetails", "businessEntityName">>, PyStr("")))
        manufacturer == extract_from_structured(
            get_nested(record, <<"technicalRegulationObjectDetails",
                                 "manufacturerDetails">>, PyStr("")),
            "businessEntityName")
        start == to_ddmmyyyy(get_date_value(record, Field("docStartDate", <<"docStartDate">>)))
        end == to_ddmmyyyy(get_date_value(record, Field("docValidityDate", <<"docValidityDate">>)))
        term == IF start # "" /\ end # "" THEN start \o " - " \o end
                ELSE IF start # "" THEN start ELSE end
        regulation == parse_structured_value(
            dict_get(record, "technicalRegulationId", PyStr("")))
    IN IF IsError(manufacturer) THEN manufacturer
       ELSE IF IsError(regulation) THEN regulation
       ELSE [docId |-> flatten_for_humans(dict_get(record, "docId", PyStr(""))),
             country |-> IF country_code \in DOMAIN COUNTRY_NAMES_RU
                         THEN COUNTRY_NAMES_RU[country_code] ELSE country_code,
             conformityDocKindName |->
                 flatten_for_humans(dict_get(record, "conformityDocKindName", PyStr(""))),
             term |-> term,
             applicant |-> applicant,
             manufacturer |-> IF manufacturer = PyStr("") THEN applicant
                              ELSE manufacturer.str,
             technicalRegulationId |-> flatten_for_humans(regulation),
             authority |-> flatten_for_humans(
                 get_nested(record, <<"conformityAuthorityV2Details",
                                      "businessEntityName">>, PyStr(""))),
             status |-> status_from_record(record, now)]

\* ------------------------------------------- record_matches_updated_from
\* repr(v), which str(v) is for a list or a dict
RECURSIVE py_repr(_)
py_repr(v) ==
    IF IsList(v)
    THEN "[" \o join(", ", [i \in 1..Len(v.list) |-> py_repr(v.list[i])]) \o "]"
    ELSE IF IsDict(v)
    THEN "{" \o join(", ", [i \in 1..Len(v.dict) |->
                 "'" \o v.dict[i][1] \o "': " \o py_repr(v.dict[i][2])]) \o "}"
    ELSE IF IsStr(v) THEN "'" \o text_of(v) \o "'"
    ELSE py_str(v)

\* str(v) as a str value
str_of(v) ==
    IF IsStr(v) THEN v
    ELSE IF IsList(v) \/ IsDict(v) THEN PyStr(py_repr(v))
    ELSE PyStr(py_str(v))

UpdateField == "resourceItemStatusDetails/updateDateTime"

\* get_update_datetime_value
get_update_datetime_value(record) ==
    LET candidates ==
          << get_date_value(record, Field(UpdateField, <<UpdateField>>)),
             get_date_value(record,
                            Field("resourceItemStatusDetails.updateDateTime",
                                  <<"resourceItemStatusDetails", "updateDateTime">>)),
             get_nested(record, <<"resourceItemStatusDetails", "updateDateTime">>,
                        PyStr("")),
             get_nested(record, <<"resourceItemStatusDetails", "updateDateTime",
                                  "$date">>, PyStr("")),
             dict_get(record, UpdateField, PyStr("")) >>
        nested(c) == IF IsDict(c) THEN dict_get(c, "$date", PyStr("")) ELSE PyStr("")
        found(c) == py_bool(nested(c)) \/ py_bool(c)
    IN IF \E i \in 1..Len(candidates) : found(candidates[i])
       THEN LET c == candidates[CHOOSE i \in 1..Len(candidates) :
                                   /\ found(candidates[i])
                                   /\ \A j \in 1..(i - 1) : ~found(candidates[j])]
            IN IF py_bool(nested(c)) THEN str_of(nested(c)) ELSE str_of(c)
       ELSE PyStr("")

\* parse_iso_datetime_utc: the instant, or None
parse_iso_datetime_utc(value) ==
    LET text == IF IsStr(value) THEN strip(value) ELSE "" IN
    IF text = "" THEN PyNone
    ELSE IF text = "2025-01-01T00:00:00.00Z" THEN fromisoformat("2025-01-01T00:00:00Z")
    ELSE IF IsError(fromisoformat(text)) THEN PyNone
    ELSE fromisoformat(text)

\* record_matches_updated_from
record_matches_updated_from(record, updated_from_dt) ==
    IF updated_from_dt = PyNone THEN TRUE
    ELSE LET update_dt == parse_iso_datetime_utc(get_update_datetime_value(record)) IN
         IF update_dt = PyNone THEN FALSE
         ELSE DateLE(updated_from_dt.utc, update_dt.utc)

\* ------------------------------------------- the rows of a page
\* stream_country's loop over the items of a page: the list rows, or the
\* exception that escapes the loop
RECURSIVE rows_of(_, _, _, _, _, _)
rows_of(items, country_code, client_filter, updated_from_dt, now, written) ==
    IF items = <<>> THEN [rows |-> written]
    ELSE LET record == normalize_record(Head(items), country_code) IN
         IF client_filter /\ ~record_matches_updated_from(record, updated_from_dt)
         THEN rows_of(Tail(items), country_code, client_filter, updated_from_dt,
                      now, written)
         ELSE LET row == record_to_selected_row(record, now) IN
              IF IsError(row) THEN row
              ELSE rows_of(Tail(items), country_code, client_filter,
                           updated_from_dt, now, Append(written, row))

page_rows(items, country_code, client_filter, updated_from_dt, now) ==
    rows_of(items, country_code, client_filter, updated_from_dt, now, <<>>)

\* The documents tried: the update time in one of three places, of one of
\* five texts; docId tells them apart.
UpdateForms == {"nested", "wrapped", "slash"}
UpdateTexts ==
    {"2024-12-31T00:00:00Z", "2025-01-01T00:00:00Z", "2025-01-01T01:00:00+03:00",
     "2025-06-24T01:02:03Z", "yesterday"}

UpdatedDoc(form, text) ==
    LET id == <<"docId", PyStr(form \o " " \o text)>> IN
    IF form = "nested"
    THEN PyDict(<< id, <<"resourceItemStatusDetails",
                         PyDict(<< <<"updateDateTime", PyStr(text)>> >>)>> >>)
    ELSE IF form = "wrapped"
    THEN PyDict(<< id, <<"resourceItemStatusDetails",
                         PyDict(<< <<"updateDateTime",
                                     PyDict(<< <<"$date", PyStr(text)>> >>)>> >>)>> >>)
    ELSE PyDict(<< id, <<UpdateField, PyPadded(text)>> >>)

\* A document one of whose structured fields holds the text {[1]: 2}.
OddFieldDoc(text) ==
    PyDict(<< <<"docId", PyStr("odd " \o text)>>,
              <<UpdateField, PyStr(text)>>,
              <<"technicalRegulationId", PyStr("{[1]: 2}")>> >>)

MalformedItems ==
    {PyStr("not json"), PyStr("{\"docId\": "),
     PyList(<<PyInt(1), PyInt(2), PyInt(3)>>), PyInt(5), PyNone}

PageItems ==
    {UpdatedDoc(form, text) : form \in UpdateForms, text \in UpdateTexts}
    \cup {BareDoc, OddFieldDoc(""), OddFieldDoc("2025-06-24T01:02:03Z")}
    \cup MalformedItems

MaxPage == 2

Pages == SeqOf(PageItems, MaxPage) \ {<<>>}

InitPage ==
    /\ ParkedProcess
    /\ result = NoCall
    /\ \E page \in Pages, client_filter \in BOOLEAN :
          call = [f |-> "page", data |-> page, country_code |-> "KG",
                  skip |-> 0,
                  use_client_updated_filter |-> client_filter,
                  updated_from_dt |->
                      parse_iso_datetime_utc(PyStr("2025-01-01T00:00:00.00Z")),
                  now |-> datetime(2025, 3, 1)]

\* The page is handled: its rows go to the writer and the offset moves on,
\* unless an exception ends the walk.
HandlePageItems ==
    /\ call.f = "page"
    /\ LET new_rows == page_rows(call.data, call.country_code,
                                 call.use_client_updated_filter,
                                 call.updated_from_dt, call.now)
       IN IF IsError(new_rows)
          THEN Return(new_rows)
          ELSE Return([rows |-> new_rows.rows,
                       next_skip |-> call.skip + Len(call.data)])

NextPage == HandlePageItems

SpecPage == InitPage /\ [][NextPage]_vars

\* ------------------------------------------- normalize_utc_timestamp
\* The function inspects its text character by character, so here a text is
\* the sequence of its characters.
DigitChars == {"0", "1", "2", "3", "4", "5", "6", "7", "8", "9"}

\* str.isdigit()
isdigit(text) == text # <<>> /\ \A i \in 1..Len(text) : text[i] \in DigitChars

DigitValue(char) == CHOOSE n \in 0..9 : ToString(n) = char

\* int(text) of a text of digits
RECURSIVE int(_)
int(text) ==
    IF text = <<>> THEN 0
    ELSE 10 * int(SubSeq(text, 1, Len(text) - 1)) + DigitValue(text[Len(text)])

\* the decimal digits of n, without padding
RECURSIVE digits(_)
digits(n) ==
    IF n < 10 THEN <<ToString(n)>>
    ELSE Append(digits(n \div 10), ToString(n % 10))

\* f"{n:0{width}d}"
RECURSIVE zero_padded(_, _)
zero_padded(n, width) ==
    IF Len(digits(n)) >= width THEN digits(n)
    ELSE <<"0">> \o zero_padded(n, width - 1)

\* text[start:stop] with 0-based bounds
slice(text, start, stop) == SubSeq(text, start + 1, stop)

\* text.count(char)
count(text, char) == Cardinality({i \in 1..Len(text) : text[i] = char})

\* text.endswith(suffix)
endswith(text, suffix) ==
    /\ Len(text) >= Len(suffix)
    /\ SubSeq(text, Len(text) - Len(suffix) + 1, Len(text)) = suffix

\* text.replace(char, by)
RECURSIVE replace(_, _, _)
replace(text, char, by) ==
    IF text = <<>> THEN <<>>
    ELSE (IF Head(text) = char THEN by ELSE <<Head(text)>>)
         \o replace(Tail(text), char, by)

\* text.strip() of a text padded with spaces
RECURSIVE lstrip(_)
lstrip(text) ==
    IF text # <<>> /\ Head(text) = " " THEN lstrip(Tail(text)) ELSE text

RECURSIVE rstrip(_)
rstrip(text) ==
    IF text # <<>> /\ text[Len(text)] = " "
    THEN rstrip(SubSeq(text, 1, Len(text) - 1)) ELSE text

strip_text(text) == rstrip(lstrip(text))

\* The ValueError raised with one of the four messages of the function
\* (Russian in the source), and the value returned.
ValueError(message) == [error |-> "ValueError", message |-> message]
EmptyMessage == "Pustaya data/vremya."
MonthMessage == "Nevernyy mesyats v formate gggg-mm."
DateMessage == "Nevernaya data v formate dd.mm.gggg."
FormatMessage == "Nevernyy format daty/vremeni."
Text(text) == [text |-> text]
IsValueError(v) == "error" \in DOMAIN v

\* datetime(year, month, day) is constructible
IsDate(year, month, day) ==
    /\ 1 <= year /\ year <= 9999
    /\ 1 <= month /\ month <= 12
    /\ 1 <= day /\ day <= DaysInMonth(year, month)

\* datetime.strptime(text, "%d.%m.%Y") of a text of ten characters with a
\* dot as its third and its sixth: the day, or ValueError
strptime(text) ==
    LET day == slice(text, 0, 2)
        month == slice(text, 3, 5)
        year == slice(text, 6, 10)
    IN IF isdigit(day) /\ isdigit(month) /\ isdigit(year)
          /\ IsDate(int(year), int(month), int(day))
       THEN datetime(int(year), int(month), int(day))
       ELSE Raised("ValueError")

MidnightSuffix ==
    <<"T", "0", "0", ":", "0", "0", ":", "0", "0", ".", "0", "0", "Z">>

\* dt.strftime("%Y-%m-%dT00:00:00.00Z"); whether %Y pads a year below 1000
\* with zeros depends on the C library (glibc does not)
strftime_midnight(dt, year_padded) ==
    (IF year_padded THEN zero_padded(dt[1], 4) ELSE digits(dt[1]))
    \o <<"-">> \o zero_padded(dt[2], 2) \o <<"-">> \o zero_padded(dt[3], 2)
    \o MidnightSuffix

\* the date part of an ISO text: YYYY-MM-DD, or YYYYMMDD
iso_date_ok(text) ==
    IF Len(text) = 10
    THEN /\ text[5] = "-" /\ text[8] = "-"
         /\ isdigit(slice(text, 0, 4)) /\ isdigit(slice(text, 5, 7))
         /\ isdigit(slice(text, 8, 10))
         /\ IsDate(int(slice(text, 0, 4)), int(slice(text, 5, 7)),
                   int(slice(text, 8, 10)))
    ELSE /\ Len(text) = 8 /\ isdigit(text)
         /\ IsDate(int(slice(text, 0, 4)), int(slice(text, 4, 6)),
                   int(slice(text, 6, 8)))

\* two digits of a number under a bound
two_digits_ok(text, below) == Len(text) = 2 /\ isdigit(text) /\ int(text) < below

\* HH[:MM[:SS[.f...]]]
iso_clock_ok(text) ==
    /\ Len(text) >= 2 /\ two_digits_ok(slice(text, 0, 2), 24)
    /\ \/ Len(text) = 2
       \/ /\ Len(text) >= 5 /\ text[3] = ":" /\ two_digits_ok(slice(text, 3, 5), 60)
          /\ \/ Len(text) = 5
             \/ /\ Len(text) >= 8 /\ text[6] = ":"
                /\ two_digits_ok(slice(text, 6, 8), 60)
                /\ \/ Len(text) = 8
                   \/ /\ Len(text) >= 10 /\ text[9] = "."
                      /\ isdigit(slice(text, 9, Len(text)))

\* the UTC offset after the sign: HH:MM
iso_offset_ok(text) ==
    /\ Len(text) = 5 /\ text[3] = ":"
    /\ two_digits_ok(slice(text, 0, 2), 24) /\ two_digits_ok(slice(text, 3, 5), 60)

\* the time part of an ISO text: a clock, then at most one signed offset
iso_time_ok(text) ==
    LET signs == {i \in 1..Len(text) : text[i] \in {"+", "-"}} IN
    IF signs = {} THEN iso_clock_ok(text)
    ELSE LET at == CHOOSE i \in signs : \A j \in signs : i <= j IN
         /\ iso_clock_ok(SubSeq(text, 1, at - 1))
         /\ iso_offset_ok(SubSeq(text, at + 1, Len(text)))

\* datetime.fromisoformat(text) returns: the date part is the first ten
\* characters when the fifth is "-" and the first eight otherwise, one
\* separator character follows, and the rest is the time part
fromisoformat_ok(text) ==
    LET date_len == IF Len(text) >= 5 /\ text[5] = "-" THEN 10 ELSE 8 IN
    /\ Len(text) >= date_len
    /\ iso_date_ok(SubSeq(text, 1, date_len))
    /\ \/ Len(text) = date_len
       \/ /\ Len(text) > date_len + 1
          /\ iso_time_ok(SubSeq(text, date_len + 2, Len(text)))

\* A variant that takes any two digits for a month.
year_month_step_unchecked(text) ==
    IF Len(text) = 4 /\ isdigit(text)
    THEN Text(text \o <<"-", "0", "1", "-", "0", "1">> \o MidnightSuffix)
    ELSE IF Len(text) = 7 /\ text[5] = "-" /\ isdigit(slice(text, 0, 4))
            /\ isdigit(slice(text, 5, 7))
    THEN Text(zero_padded(int(slice(text, 0, 4)), 4) \o <<"-">>
              \o zero_padded(int(slice(text, 5, 7)), 2)
              \o <<"-", "0", "1">> \o MidnightSuffix)
    ELSE Text(text)

\* the text after the "year or year-month" step, or the error raised
year_month_step(text) ==
    IF Len(text) = 4 /\ isdigit(text)
    THEN Text(text \o <<"-", "0", "1", "-", "0", "1">> \o MidnightSuffix)
    ELSE IF Len(text) = 7 /\ text[5] = "-" /\ isdigit(slice(text, 0, 4))
            /\ isdigit(slice(text, 5, 7))
    THEN LET year == int(slice(text, 0, 4))
             month == int(slice(text, 5, 7))
         IN IF ~(1 <= month /\ month <= 12) THEN ValueError(MonthMessage)
            ELSE Text(zero_padded(year, 4) \o <<"-">> \o zero_padded(month, 2)
                      \o <<"-", "0", "1">> \o MidnightSuffix)
    ELSE Text(text)

\* the text after the "day.month.year" step, or the error raised
local_date_step(text, year_padded) ==
    IF Len(text) = 10 /\ text[3] = "." /\ text[6] = "."
    THEN LET dt == strptime(text) IN
         IF IsError(dt) THEN ValueError(DateMessage)
         ELSE Text(strftime_midnight(dt, year_padded))
    ELSE Text(text)

\* the text after the "date only" step
date_only_step(text) ==
    IF Len(text) = 10 /\ count(text, "-") = 2 THEN text \o MidnightSuffix
    ELSE text

\* the last step: the probe, and the rewriting of a trailing +00:00
probe_step(text) ==
    LET probe == replace(text, "Z", <<"+", "0", "0", ":", "0", "0">>) IN
    IF ~fromisoformat_ok(probe) THEN ValueError(FormatMessage)
    ELSE IF endswith(text, <<"+", "0", "0", ":", "0", "0">>)
    THEN Text(SubSeq(text, 1, Len(text) - 6) \o <<"Z">>)
    ELSE Text(text)

\* normalize_utc_timestamp: the text returned, or the ValueError raised
normalize_utc_timestamp(value, year_padded) ==
    LET text == strip_text(value) IN
    IF text = <<>> THEN ValueError(EmptyMessage)
    ELSE LET first == year_month_step(text) IN
         IF IsValueError(first) THEN first
         ELSE LET second == local_date_step(first.text, year_padded) IN
              IF IsValueError(second) THEN second
              ELSE probe_step(date_only_step(second.text))

\* The years, months and days written in the date-only forms.
YearNumbers == {0, 1, 999, 1000, 2024, 2025, 9999}
MonthNumbers == {0, 1, 2, 6, 12, 13}
DayNumbers == {0, 1, 24, 29, 30, 31, 32}

DateOnlyForms == {"YYYY", "YYYY-MM", "YYYY-MM-DD", "DD.MM.YYYY"}

\* the text of a date in one of the date-only forms
date_text(form, year, month, day) ==
    IF form = "YYYY" THEN zero_padded(year, 4)
    ELSE IF form = "YYYY-MM"
    THEN zero_padded(year, 4) \o <<"-">> \o zero_padded(month, 2)
    ELSE IF form = "YYYY-MM-DD"
    THEN zero_padded(year, 4) \o <<"-">> \o zero_padded(month, 2)
         \o <<"-">> \o zero_padded(day, 2)
    ELSE zero_padded(day, 2) \o <<".">> \o zero_padded(month, 2)
         \o <<".">> \o zero_padded(year, 4)

DateOnlyTexts ==
    {date_text(form, year, month, day) :
        form \in DateOnlyForms, year \in YearNumbers,
        month \in MonthNumbers, day \in DayNumbers}

\* Full timestamps: a day, a separator, a clock and a suffix.
StampDays ==
    {date_text("YYYY-MM-DD", year, month, day) :
        year \in {2024, 2025}, month \in {2, 6}, day \in {24, 29, 30}}
Separators == {"T", " "}
ClockTexts ==
    {<<"0", "1", ":", "0", "2", ":", "0", "3">>,
     <<"0", "0", ":", "0", "0", ":", "0", "0", ".", "0", "0">>,
     <<"2", "4", ":", "0", "0", ":", "0", "0">>,
     <<"0", "1", ":", "0", "2">>}
StampSuffixes ==
    {<<>>,
     <<"Z">>,
     <<"+", "0", "0", ":", "0", "0">>,
     <<"+", "0", "3", ":", "0", "0">>}
StampTexts ==
    {day \o <<sep>> \o clock \o suffix :
        day \in StampDays, sep \in Separators,
        clock \in ClockTexts, suffix \in StampSuffixes}

\* Other texts: words, fragments, a compact date.
OtherTexts ==
    {<<"h", "e", "l", "l", "o">>,
     <<>>,
     <<" ">>,
     <<"a", "b", ".", "c", "d", ".", "e", "f", "g", "h">>,
     <<"2", "0", "2", "5", "-", "6">>,
     <<"2", "0", "2", "5", "0", "6", "2", "4">>,
     <<"2", "0", "2", "5", "-", "0", "6", "-", "2", "4", "Z">>,
     <<"2", "0", "2", "5", "-", "0", "6", "-", "2", "4", "T">>,
     <<"2", "0", "2", "5", "_", "0", "6">>,
     <<"2", "0", "2", "5", "-", "a", "b">>,
     <<"+", "0", "0", ":", "0", "0">>,
     <<"Z">>,
     <<"2", "0", "2", "5", "-", "0", "6", "-", "2", "4", "T", "0", "1", ":", "0", "2", ":", "0", "3", "z">>}

\* The texts handed to the function, as typed or with spaces around.
TimestampTexts ==
    LET typed == DateOnlyTexts \cup StampTexts \cup OtherTexts IN
    typed \cup {<<" ">> \o text \o <<" ", " ">> :
                   text \in {date_text(form, 2025, 6, 24) : form \in DateOnlyForms}}

InitTimestamp ==
    /\ ParkedProcess
    /\ result = NoCall
    /\ \E value \in TimestampTexts, year_padded \in BOOLEAN :
          call = [f |-> "timestamp", value |-> value, year_padded |-> year_padded]

NormalizeUtcTimestamp ==
    /\ call.f = "timestamp"
    /\ Return(normalize_utc_timestamp(call.value, call.year_padded))

NextTimestamp == NormalizeUtcTimestamp

SpecTimestamp == InitTimestamp /\ [][NextTimestamp]_vars

\* ------------------------------------------------------- main, from its start
\* str.upper() over the letters of the alphabet
LowerChars == <<"a", "b", "c", "d", "e", "f", "g", "h", "i", "j", "k", "l", "m",
                "n", "o", "p", "q", "r", "s", "t", "u", "v", "w", "x", "y", "z">>
UpperChars == <<"A", "B", "C", "D", "E", "F", "G", "H", "I", "J", "K", "L", "M",
                "N", "O", "P", "Q", "R", "S", "T", "U", "V", "W", "X", "Y", "Z">>

upper(text) ==
    [i \in 1..Len(text) |->
        IF \E j \in 1..26 : LowerChars[j] = text[i]
        THEN UpperChars[CHOOSE j \in 1..26 : LowerChars[j] = text[i]]
        ELSE text[i]]

\* text.split(char)
RECURSIVE split(_, _)
split(text, char) ==
    IF \A i \in 1..Len(text) : text[i] # char THEN <<text>>
    ELSE LET at == CHOOSE i \in 1..Len(text) :
                      text[i] = char /\ \A j \in 1..(i - 1) : text[j] # char
         IN <<SubSeq(text, 1, at - 1)>> \o split(SubSeq(text, at + 1, Len(text)), char)

\* the str of a sequence of characters
RECURSIVE chars_to_str(_)
chars_to_str(text) ==
    IF text = <<>> THEN "" ELSE Head(text) \o chars_to_str(Tail(text))

\* normalize_countries: the list of codes, or the ValueError raised
normalize_countries(raw_value) ==
    LET value == upper(strip_text(raw_value))
        items == split(value, ",")
        stripped == [i \in 1..Len(items) |-> chars_to_str(upper(strip_text(items[i])))]
        codes == SelectSeq(stripped, LAMBDA code : code # "")
        unknown == SelectSeq(codes, LAMBDA code :
                       \A i \in 1..Len(VALID_COUNTRY_CODES) : VALID_COUNTRY_CODES[i] # code)
    IN IF value = <<"A", "L", "L">> THEN [list |-> VALID_COUNTRY_CODES]
       ELSE IF codes = <<>> THEN Raised("ValueError")
       ELSE IF unknown # <<>> THEN Raised("ValueError")
       ELSE [list |-> fromkeys(codes)]

\* No --output: the empty name.
NoName == FileName("", "", FALSE)

\* output_name with its explicit_name
output_path(ctries, upd_from, explicit_name, r) ==
    IF explicit_name # NoName THEN explicit_name
    ELSE output_name(ctries, upd_from, r)

\* os.path.exists(path) among the files present
path_exists(files, filename) == FullName(filename) \in DOMAIN files

\* The state file after os.remove.
NoStateFile == [exists |-> FALSE, countries |-> EmptyDict, signature |-> EmptyDict]

\* main ended by a ValueError of the named check
ConfigError(check, file) == [error |-> check, state_file |-> file]

\* Variant: --reset-state removes the state file before the arguments are
\* validated.
main_start_resetting_first(args, file, files, r) ==
    LET reset == IF args.reset_state /\ file.exists THEN NoStateFile ELSE file
        ctries == normalize_countries(args.countries)
        upd == IF args.updated_from = PyNone THEN Text(<<>>)
               ELSE normalize_utc_timestamp(args.updated_from.text, FALSE)
    IN IF args.limit <= 0 THEN ConfigError("--limit", reset)
       ELSE IF IsError(ctries) THEN ConfigError("--countries", reset)
       ELSE IF IsValueError(upd) THEN ConfigError("--updated-from", reset)
       ELSE IF DateLT(args.slice_end, args.slice_start)
       THEN ConfigError("--slice-end", reset)
       ELSE LET sig == signature(ctries.list, chars_to_str(upd.text),
                                 args.date_filter_mode, args.slice_by)
                filename == output_path(ctries.list, chars_to_str(upd.text),
                                        args.output, r)
            IN IF SignatureMismatch(args.resume, StoredSignature(reset), sig)
               THEN ConfigError("signature", reset)
               ELSE IF args.resume /\ args.output # NoName /\ path_exists(files, filename)
               THEN ConfigError("--output", reset)
               ELSE IF args.max_rows_per_file <= 0
               THEN ConfigError("--max-rows-per-file", reset)
               ELSE [error |-> "", state_file |-> reset,
                     countries |-> ctries.list,
                     updated_from |-> chars_to_str(upd.text),
                     state |-> IF args.resume THEN load_state(reset) ELSE EmptyDict,
                     writer |-> CsvPartWriter(filename, args.max_rows_per_file)]

\* main from parse_args to the for loops: the checks in the order of the
\* code, each ending main with a ValueError; between them --reset-state
\* removes the state file.  The outcome is the check that failed and the
\* state file as it is left, or main's locals at the for loops.  Without
\* --updated-from the user is asked, and answers "no filter".
main_start(args, file, files, r) ==
    LET ctries == normalize_countries(args.countries)
        upd == IF args.updated_from = PyNone THEN Text(<<>>)
               ELSE normalize_utc_timestamp(args.updated_from.text, FALSE)
    IN IF args.limit <= 0 THEN ConfigError("--limit", file)
       ELSE IF IsError(ctries) THEN ConfigError("--countries", file)
       ELSE IF IsValueError(upd) THEN ConfigError("--updated-from", file)
       ELSE IF DateLT(args.slice_end, args.slice_start)
       THEN ConfigError("--slice-end", file)
       ELSE LET reset == IF args.reset_state /\ file.exists THEN NoStateFile ELSE file
                sig == signature(ctries.list, chars_to_str(upd.text),
                                 args.date_filter_mode, args.slice_by)
                filename == output_path(ctries.list, chars_to_str(upd.text),
                                        args.output, r)
            IN IF SignatureMismatch(args.resume, StoredSignature(reset), sig)
               THEN ConfigError("signature", reset)
               ELSE IF args.resume /\ args.output # NoName /\ path_exists(files, filename)
               THEN ConfigError("--output", reset)
               ELSE IF args.max_rows_per_file <= 0
               THEN ConfigError("--max-rows-per-file", reset)
               ELSE [error |-> "", state_file |-> reset,
                     countries |-> ctries.list,
                     updated_from |-> chars_to_str(upd.text),
                     state |-> IF args.resume THEN load_state(reset) ELSE EmptyDict,
                     writer |-> CsvPartWriter(filename, args.max_rows_per_file)]

\* The command lines tried.  --countries and --updated-from are texts.
RawCountries ==
    {<<"K", "G">>, <<"k", "g", ",", " ", "R", "U">>,
     <<"K", "G", ",", "X", "X">>, <<" ", ",">>}
RawUpdatedFrom ==
    {PyNone, Text(<<"2", "0", "2", "4", "-", "0", "6", "-", "2", "4">>),
     Text(<<"h", "e", "l", "l", "o">>)}
SliceEnds == {slice_end_dt, datetime(2014, 12, 31)}
ExplicitName == FileName("export", ".csv", TRUE)

MainArgs ==
    [countries : RawCountries, updated_from : RawUpdatedFrom,
     limit : 0..MaxLimit, max_rows_per_file : {0, RunRowsPerFile},
     date_filter_mode : {"auto"}, slice_by : {"none"},
     slice_start : {slice_start_dt}, slice_end : SliceEnds,
     resume : BOOLEAN, reset_state : BOOLEAN, output : {NoName, ExplicitName}]

\* what normalize_countries / normalize_utc_timestamp make of the arguments
\* when they accept them
CountriesOf(args) ==
    LET ctries == normalize_countries(args.countries) IN
    IF IsError(ctries) THEN <<"KG">> ELSE ctries.list

UpdatedFromOf(args) ==
    LET upd == IF args.updated_from = PyNone THEN Text(<<>>)
               ELSE normalize_utc_timestamp(args.updated_from.text, FALSE)
    IN IF IsValueError(upd) THEN None ELSE chars_to_str(upd.text)

\* The state file an earlier run left: none, one of a run with the same
\* arguments, or one of a run with another --date-filter-mode; it holds no
\* entry, or that of a first unit found empty.
EarlierStateFiles(args) ==
    LET first_key == state_key(CountriesOf(args)[1],
                               iter_time_slices(args.slice_by, args.slice_start,
                                                slice_end_dt)[1][1])
    IN {NoStateFile}
       \cup {[exists |-> TRUE, countries |-> entries,
              signature |-> signature(CountriesOf(args), UpdatedFromOf(args),
                                      mode, args.slice_by)] :
                mode \in {"auto", "server"},
                entries \in {EmptyDict,
                             DictSet(EmptyDict, first_key, Entry(0, 0, TRUE, FALSE))}}

\* The output files an earlier run left under the explicit name: none, the
\* first part, or the second part alone.
EarlierFiles ==
    {EmptyDict,
     DictSet(EmptyDict, _split_name(ExplicitName, 1), <<HeaderLine, RowLine("old")>>),
     DictSet(EmptyDict, _split_name(ExplicitName, 2), <<HeaderLine, RowLine("old")>>)}

InitMain ==
    /\ \E args \in MainArgs :
        /\ call = [f |-> "main", args |-> args]
        /\ limit = args.limit
        /\ resume = args.resume
        /\ slice_by = args.slice_by
        /\ date_filter_mode = args.date_filter_mode
        /\ state_file \in EarlierStateFiles(args)
        /\ upstream \in SeqOf(BOOLEAN, MaxItems)
        /\ (~Truthy(UpdatedFromOf(args))) => (\A i \in 1..Len(upstream) : upstream[i])
    /\ result = NoCall
    /\ countries = <<>>
    /\ updated_from = None
    /\ run = 1
    /\ mpc = "starting"
    /\ state = EmptyDict
    /\ unit_idx = 1
    /\ total = 0
    /\ pc = "idle"
    /\ start_skip = 0
    /\ resumed_written = 0
    /\ offset_requests = 0
    /\ items_received = 0
    /\ skip = 0
    /\ total_written = 0
    /\ batch_count = 0
    /\ consecutive_errors = 0
    /\ use_server_updated_filter = FALSE
    /\ use_client_updated_filter = FALSE
    /\ response = NoResponse
    /\ data = <<>>
    /\ rows = <<>>
    /\ out = [r \in 1..MaxRuns |-> <<>>]
    /\ writer = CsvPartWriter(NoName, RunRowsPerFile)
    /\ disk \in EarlierFiles
    /\ SaveIdle

\* main runs from parse_args to its for loops, or ends with a ValueError.
MainStart ==
    /\ mpc = "starting"
    /\ LET started == main_start(call.args, state_file, disk, run) IN
        /\ state_file' = started.state_file
        /\ IF started.error # ""
           THEN /\ mpc' = "config_error"
                /\ result' = [value |-> Raised(started.error)]
                /\ UNCHANGED <<countries, updated_from, state, writer>>
           ELSE /\ mpc' = "running"
                /\ countries' = started.countries
                /\ updated_from' = started.updated_from
                /\ state' = started.state
                /\ writer' = started.writer
                /\ result' = result
    /\ UNCHANGED <<slice_by, limit, date_filter_mode, upstream, run, resume,
                   unit_idx, total, pc, walk_vars, response, data, rows, out, disk,
                   save_vars, call>>

NextMain ==
    \/ MainStart
    \/ SkipDoneUnit
    \/ BeginWalk
    \/ FinishRun
    \/ FetchBatchCalm
    \/ HandleEmptyPage
    \/ HandlePage
    \/ ReportProgress
    \/ ReportDone
    \/ HandleFilterFallback
    \/ HandleClientError
    \/ HandleHttpError
    \/ HandleNetworkError

SpecMain == InitMain /\ [][NextMain]_vars

\* ================================================================ properties
HasUpdatedClause(filter) ==
    \E j \in 1..Len(filter) : filter[j] = UpdatedClause(updated_from)

\* The ids an export without failures writes for one unit: the items that
\* satisfy the updated-since threshold (all items without a threshold).
ExpectedIds == ServerView(<<UpdatedClause(updated_from)>>)

RowsOfUnit(log, key) == SelectSeq(log, LAMBDA r : r[1] = key)

CountOf(log, row) == Cardinality({j \in 1..Len(log) : log[j] = row})

StateEntry(key) == state_file.countries[key]

HasEntry(key) == state_file.exists /\ key \in DOMAIN state_file.countries

\* A request failure that the walker counts: a transport error, or an HTTP
\* 429 / 5xx that is not the 504 of the filter fallback.
IsFallbackCase ==
    /\ response.kind = "http" /\ response.status = 504
    /\ date_filter_mode = "auto" /\ updated_from # None
    /\ use_server_updated_filter

IsCountedFailure ==
    \/ response.kind = "network"
    \/ /\ response.kind = "http"
       /\ response.status = 429 \/ (500 =< response.status /\ response.status =< 599)
       /\ ~IsFallbackCase

\* ------------------------------------------------------------------------ C1
\* C1: when a run is killed at some point and the export is run again with
\* --resume against the same upstream, the rows written by the two runs
\* together are the rows of an uninterrupted export, each exactly once.
C1_KillThenResumeExactlyOnce ==
    (run = 2 /\ resume /\ mpc = "done") =>
        LET both == out[1] \o out[2] IN
        /\ \A u \in 1..Len(WorkUnits) : \A j \in 1..Len(ExpectedIds) :
              CountOf(both, <<WorkUnits[u], ExpectedIds[j]>>) = 1
        /\ Len(both) = Len(WorkUnits) * Len(ExpectedIds)

\* ------------------------------------------------------------------------ C2
\* C2: after every successfully fetched non-empty page the offset advances by
\* the number of items received: the reported next offset is skip + len(data),
\* and so is the next request's skip when the walk goes on, whatever number
\* of rows the client-side filter let through.
C2_OffsetAdvancesByItemsReceived ==
    [][(pc = "report") =>
          /\ HasEntry(CurKey)'
          /\ StateEntry(CurKey)'.next_skip = skip + Len(data)
          /\ (pc' = "fetch" => skip' = skip + Len(data))]_vars

\* A full page of which the client-side filter dropped records was reported
\* and the walk goes on at the advanced offset.
C2_Witness ==
    /\ pc = "fetch" /\ use_client_updated_filter
    /\ skip = start_skip + limit
    /\ total_written < limit

\* ------------------------------------------------------------------------ C3
\* C3: for an offset K saved by a walk, the rows written before K was saved
\* plus the rows written by the walk resumed at K are as many as the rows of
\* one uninterrupted walk from offset 0.
WalkFinished ==
    \/ pc = "report_done"
    \/ pc = "handle" /\ response.kind = "ok" /\ response.data = <<>>

C3_ResumedTotalEqualsUninterrupted ==
    (run = 2 /\ resume /\ mpc = "running" /\ WalkFinished) =>
        resumed_written + total_written = Len(ExpectedIds)

\* ------------------------------------------------------------------------ C4
\* C4: a 504 answer in auto mode with a threshold set and the server-side
\* filter active switches the walk to client-side filtering and sends it back
\* to fetch at the same offset, with no failure counted, nothing saved and
\* nothing fatal; and every request carries the current offset and the
\* updated-since clause only while the server-side filter is active.
C4_FallbackRetriesSameOffset ==
    [][/\ (pc = "handle" /\ IsFallbackCase) =>
            /\ mpc' = "running" /\ pc' = "fetch"
            /\ skip' = skip
            /\ ~use_server_updated_filter' /\ use_client_updated_filter'
            /\ consecutive_errors' = consecutive_errors
            /\ UNCHANGED <<state_file, total_written, out>>
       /\ (pc = "fetch" /\ pc' = "handle") =>
            /\ response'.skip = skip
            /\ HasUpdatedClause(response'.filter) =
                 (updated_from # None /\ use_server_updated_filter)]_vars

\* After a fallback at offset 0 the request was sent again at offset 0
\* without the clause, and answered.
C4_Witness ==
    /\ date_filter_mode = "auto" /\ use_client_updated_filter
    /\ pc = "handle" /\ response.kind = "ok"
    /\ response.skip = 0 /\ ~HasUpdatedClause(response.filter)
    /\ consecutive_errors = 0 /\ batch_count = 1

\* ------------------------------------------------------------------------ C5
\* C5: within one walk, once the server-side filter is off and the client-side
\* filter on, they stay so through every later step, every later request is
\* sent without the updated-since clause and every later page is filtered
\* client-side.
C5_DowngradeIsOneWay ==
    [][/\ (pc # "idle" /\ pc' # "idle" /\ use_client_updated_filter) =>
            (~use_server_updated_filter' /\ use_client_updated_filter')
       /\ (pc = "fetch" /\ pc' = "handle" /\ use_client_updated_filter) =>
            ~HasUpdatedClause(response'.filter)
       /\ (pc = "handle" /\ pc' = "report" /\ use_client_updated_filter) =>
            /\ rows' = SelectSeq(response.data, IsFresh)
            /\ total_written' = total_written + Len(rows')]_vars

\* After the downgrade in auto mode a counted failure happened and a later
\* page is being filtered client-side with a record dropped.
C5_Witness ==
    /\ date_filter_mode = "auto" /\ use_client_updated_filter
    /\ ~use_server_updated_filter
    /\ pc = "report" /\ skip > 0 /\ Len(rows) < Len(data)

\* ------------------------------------------------------------------------ C6
\* C6: every counted failure adds one to consecutive_errors; below 8 the walk
\* retries at the same offset, at 8 it ends fatal; a successful fetch resets
\* the count; a running walk never holds a count of 8 or more.
C6_ConsecutiveFailuresBounded ==
    /\ [](consecutive_errors =< 8 /\ (mpc = "running" => consecutive_errors < 8))
    /\ [][/\ (pc = "handle" /\ IsCountedFailure) =>
               /\ consecutive_errors' = consecutive_errors + 1
               /\ IF consecutive_errors' >= 8
                  THEN mpc' = "fatal"
                  ELSE mpc' = "running" /\ pc' = "fetch" /\ skip' = skip
          /\ (pc = "handle" /\ response.kind = "ok") => consecutive_errors' = 0
          /\ (mpc = "running" /\ mpc' = "fatal" /\ response.kind # "http")
                => consecutive_errors' = 8]_vars

\* The eighth failure in a row, after an earlier page had reset the count.
C6_Witness ==
    /\ mpc = "fatal" /\ consecutive_errors = 8 /\ skip > 0

\* ------------------------------------------------------------------------ C7
\* C7: an HTTP 4xx other than 429 ends the walk fatal at once, whatever the
\* failure count, which it leaves as it is; nothing is saved or written, and
\* nothing happens after the fatal end.
C7_ClientErrorIsFatalAtOnce ==
    [][/\ (pc = "handle" /\ response.kind = "http"
           /\ 400 =< response.status /\ response.status =< 499
           /\ response.status # 429) =>
            /\ mpc' = "fatal"
            /\ consecutive_errors' = consecutive_errors
            /\ UNCHANGED <<state_file, out, skip>>
       /\ mpc # "fatal"]_vars

\* A 4xx ended the walk after some, but fewer than 8, counted failures.
C7_Witness ==
    /\ mpc = "fatal"
    /\ consecutive_errors > 0 /\ consecutive_errors < 8

\* ------------------------------------------------------------------------ C8
\* C8: a non-empty page shorter than the page size is the last one: its rows
\* are written, progress is reported with done=false and then done=true at
\* the advanced offset, and the walk returns without another request.
C8_ShortPageEndsWalk ==
    [][/\ (pc = "handle" /\ response.kind = "ok"
           /\ response.data # <<>> /\ Len(response.data) < limit) =>
            /\ pc' = "report"
            /\ data' = response.data
            /\ Len(out'[run]) = Len(out[run]) + Len(rows')
            /\ \A j \in 1..Len(rows') :
                  out'[run][Len(out[run]) + j] = <<CurKey, rows'[j]>>
       /\ (pc = "report" /\ Len(data) < limit) =>
            /\ pc' = "report_done"
            /\ StateEntry(CurKey)'.done = FALSE
       /\ (pc = "report_done") =>
            /\ pc' = "idle" /\ unit_idx' = unit_idx + 1
            /\ state_file'.countries[CurKey] =
                 Entry(skip + Len(data), total_written, TRUE,
                       use_client_updated_filter)
            /\ UNCHANGED <<out, response>>
       /\ unit_idx' >= unit_idx]_vars

\* The first unit's walk ended on a short page: its final offset is no
\* multiple of the page size, and the loop has moved on.
C8_Witness ==
    /\ pc = "idle" /\ unit_idx = 2
    /\ HasEntry(WorkUnits[1]) /\ StateEntry(WorkUnits[1]).done
    /\ StateEntry(WorkUnits[1]).next_skip % limit # 0
    /\ Len(out[run]) > 0

\* ------------------------------------------------------------------------ C9
\* C9: an empty page ends the walk: progress is reported with done=true at
\* the unchanged offset, nothing is written, and the walk returns without
\* another request.
C9_EmptyPageEndsWalk ==
    [][(pc = "handle" /\ response.kind = "ok" /\ response.data = <<>>) =>
          /\ pc' = "idle" /\ unit_idx' = unit_idx + 1
          /\ state_file'.countries[CurKey] =
               Entry(skip, total_written, TRUE, use_client_updated_filter)
          /\ UNCHANGED <<out, skip, total_written>>]_vars

\* The first unit's walk ended on an empty page that followed a full page.
C9_Witness ==
    /\ pc = "idle" /\ unit_idx = 2
    /\ HasEntry(WorkUnits[1]) /\ StateEntry(WorkUnits[1]).done
    /\ StateEntry(WorkUnits[1]).next_skip > 0
    /\ StateEntry(WorkUnits[1]).next_skip % limit = 0

\* ------------------------------------------------------------------------ C10
\* C10: whenever a walk is about to request, or is waiting on, a page after a
\* non-empty page of the same walk, the state file holds the unit's entry
\* with the new offset, the rows written so far by the walk and done=false.
C10_ProgressSavedBeforeNextPage ==
    (mpc = "running" /\ pc \in {"fetch", "handle"} /\ skip > start_skip) =>
        /\ HasEntry(CurKey)
        /\ StateEntry(CurKey).next_skip = skip
        /\ StateEntry(CurKey).written_in_run = total_written
        /\ StateEntry(CurKey).done = FALSE

\* A resumed walk asks for its second page with the first one's progress saved.
C10_Witness ==
    /\ mpc = "running" /\ pc = "handle" /\ resume
    /\ start_skip > 0 /\ skip > start_skip /\ total_written > 0

\* ------------------------------------------------------------------------ C11
\* C11: whatever step of save_state the process dies at, the state path never
\* holds a partly written text: it is left as it was, or it is replaced in
\* one step by the whole text of the state being saved; it is never removed.
C11_SaveStateIsAtomic ==
    /\ [](StatePath \in DOMAIN fs =>
             fs[StatePath].written = JsonChunks(fs[StatePath].text))
    /\ [][/\ StatePath \in DOMAIN fs => StatePath \in DOMAIN fs'
          /\ StatePath \in DOMAIN fs' =>
                \/ StatePath \in DOMAIN fs /\ fs'[StatePath] = fs[StatePath]
                \/ fs'[StatePath] = WholeFile(save_arg)]_vars

\* The process died while the temp file was partly written, and the state
\* path still holds the whole text of an earlier, different state.
C11_Witness ==
    /\ save_pc = "dead"
    /\ StatePath \in DOMAIN fs
    /\ fs[StatePath].written = JsonChunks(fs[StatePath].text)
    /\ tmp_path(StatePath) \in DOMAIN fs
    /\ fs[tmp_path(StatePath)].written > 0
    /\ fs[tmp_path(StatePath)].written < JsonChunks(fs[tmp_path(StatePath)].text)
    /\ fs[tmp_path(StatePath)].text # fs[StatePath].text

\* ------------------------------------------------------------------------ C12
\* C12: a run started with --resume against a state file whose stored
\* signature differs from the run's own never runs: it has ended in the
\* configuration error with nothing loaded from the file, no unit begun,
\* nothing requested or written, and the state file as it was.
C12_SignatureMismatchIsFatal ==
    /\ (resume /\ state_file.exists /\ state_file.signature # Signature) =>
          mpc = "config_error"
    /\ mpc = "config_error" =>
          /\ resume /\ state_file.exists /\ state_file.signature # Signature
          /\ state = EmptyDict
          /\ unit_idx = 1 /\ pc = "idle" /\ response = NoResponse
          /\ out[run] = <<>> /\ writer.files_created = <<>>

\* A second run with --resume and another --date-filter-mode met the state
\* file of the first run, which holds an entry, and ended in the error.
C12_Witness ==
    /\ run = 2 /\ mpc = "config_error"
    /\ state_file.signature.date_filter_mode # date_filter_mode
    /\ DOMAIN state_file.countries # {}

\* ------------------------------------------------------------------------ C13
\* C13: in a run with --resume, a unit whose stored entry has done=true is
\* passed over in one step of main's loop that requests nothing, writes
\* nothing and leaves the state file alone; no walk is ever active on a unit
\* whose entry is done, and a done entry is never changed during the run.
C13_DoneUnitsAreSkipped ==
    /\ []((resume /\ mpc = "running" /\ pc # "idle") =>
             ~(HasEntry(CurKey) /\ StateEntry(CurKey).done))
    /\ [][/\ (resume /\ mpc = "running" /\ mpc' = "running" /\ pc = "idle"
              /\ unit_idx =< Len(WorkUnits)
              /\ HasEntry(CurKey) /\ StateEntry(CurKey).done) =>
               /\ pc' = "idle" /\ unit_idx' = unit_idx + 1
               /\ UNCHANGED <<state_file, out, disk, response, total>>
          /\ (resume /\ run' = run) =>
               \A k \in DOMAIN state_file.countries :
                  state_file.countries[k].done =>
                     /\ k \in DOMAIN state_file'.countries
                     /\ state_file'.countries[k] = state_file.countries[k]]_vars

\* The resumed run has passed over the first unit, which the first run had
\* finished with rows written, and has written nothing itself.
C13_Witness ==
    /\ run = 2 /\ resume /\ mpc = "running"
    /\ pc = "idle" /\ unit_idx = 2
    /\ HasEntry(WorkUnits[1]) /\ StateEntry(WorkUnits[1]).done
    /\ StateEntry(WorkUnits[1]).written_in_run > 0
    /\ out[2] = <<>>

\* ------------------------------------------------------------------------ C14
\* C14: until its first page is handled, a walk stands at the offset it was
\* started at, and that is the stored next_skip of the unit's entry when the
\* run has --resume and the unit has an entry, and 0 otherwise (no entry, or
\* a run without --resume whatever the state file holds); the first request
\* is sent with that offset.
FirstOffset ==
    IF resume /\ HasEntry(CurKey) THEN StateEntry(CurKey).next_skip ELSE 0

C14_WalkStartsAtStoredOffset ==
    (mpc = "running" /\ pc \in {"fetch", "handle"} /\ skip = start_skip) =>
        /\ skip = FirstOffset
        /\ (pc = "handle" => response.skip = FirstOffset)

\* The first request of a resumed walk was sent at the stored offset, which
\* is past 0, and was answered.
C14_Witness ==
    /\ run = 2 /\ resume /\ mpc = "running"
    /\ pc = "handle" /\ response.kind = "ok"
    /\ skip = start_skip /\ total_written = 0
    /\ response.skip > 0 /\ response.skip = StateEntry(CurKey).next_skip

\* ------------------------------------------------------------------------ C15
\* C15: no step of a run (none of them resets the state) removes or changes
\* in the state file an entry of a unit other than the one the run is on.
C15_EntriesAreNeverDeleted ==
    [][\A k \in DOMAIN state_file.countries :
          (unit_idx =< Len(WorkUnits) => k # CurKey) =>
              /\ k \in DOMAIN state_file'.countries
              /\ state_file'.countries[k] = state_file.countries[k]]_vars

\* ------------------------------------------------------------------------ C16
\* C16 as claimed: when a run has ended with a walk that failed 8 times in a
\* row, main's loop has still reached every unit.
C16_FatalityLimitedToUnit ==
    (mpc = "fatal" /\ consecutive_errors >= MAX_CONSECUTIVE_BATCH_ERRORS) =>
        unit_idx = Len(WorkUnits)

\* C16 amended: the 8th failure in a row ends the whole run in that step: the
\* run is fatal at the unit that failed, nothing is saved or written by the
\* step, no step follows, and every unit queued after it is left unwalked,
\* with no entry and no row.
C16_FatalityEndsTheRun ==
    /\ []((mpc = "fatal" /\ consecutive_errors >= MAX_CONSECUTIVE_BATCH_ERRORS) =>
             \A u \in (unit_idx + 1)..Len(WorkUnits) :
                /\ ~HasEntry(WorkUnits[u])
                /\ RowsOfUnit(out[run], WorkUnits[u]) = <<>>)
    /\ [][/\ (pc = "handle" /\ IsCountedFailure
              /\ consecutive_errors + 1 >= MAX_CONSECUTIVE_BATCH_ERRORS) =>
               /\ mpc' = "fatal"
               /\ unit_idx' = unit_idx
               /\ UNCHANGED <<state_file, out, disk>>
          /\ mpc # "fatal"]_vars

\* The first of two units failed 8 times in a row after rows of it had been
\* written; the second unit is still queued.
C16_Witness ==
    /\ mpc = "fatal" /\ consecutive_errors = MAX_CONSECUTIVE_BATCH_ERRORS
    /\ unit_idx = 1 /\ Len(WorkUnits) = 2
    /\ out[run] # <<>>

\* ------------------------------------------------------------------------ C17
\* C17: within a run main's loop stands on one unit at a time and moves from
\* a unit only to the next one in WorkUnits (countries in the given order,
\* the slices of a country in slicer order), when the unit's walk has
\* returned; every request carries the country and the slice bounds of the
\* unit the loop stands on; within a walk the offset never goes back and
\* each page handled after a non-empty page was requested at a greater one.
RequestIsForUnit(filter, u) ==
    /\ filter[1] = CountryClause(WorkUnits[u][1])
    /\ SubSeq(filter, Len(filter) - 1, Len(filter)) =
          build_slice_clauses(slice_date_field, SliceOf(u)[2], SliceOf(u)[3])

C17_ExportIsSequential ==
    [][(run' = run) =>
          /\ unit_idx' \in {unit_idx, unit_idx + 1}
          /\ (unit_idx' = unit_idx + 1) => (pc' = "idle" /\ mpc' = "running")
          /\ (pc = "idle" /\ pc' # "idle") => (unit_idx' = unit_idx /\ skip' = start_skip')
          /\ (pc = "fetch" /\ pc' = "handle") =>
                /\ RequestIsForUnit(response'.filter, unit_idx)
                /\ \A u \in 1..Len(WorkUnits) :
                      u # unit_idx => ~RequestIsForUnit(response'.filter, u)
                /\ response'.skip = skip
          /\ (pc # "idle" /\ pc' # "idle") => skip' >= skip
          /\ (pc = "report" /\ pc' = "fetch") => skip' > skip]_vars

\* In a run sliced by year the second slice's walk is handling its second
\* page, requested past offset 0, after the first slice's walk has returned.
C17_Witness ==
    /\ slice_by = "year" /\ unit_idx = 2
    /\ HasEntry(WorkUnits[1]) /\ StateEntry(WorkUnits[1]).done
    /\ pc = "handle" /\ response.kind = "ok" /\ response.data # <<>>
    /\ response.skip > 0

\* ------------------------------------------------------------------------ C18
\* C18: however the export loop is left - the loops are exhausted, a walk
\* raised its fatal error, or the user interrupted the run - the writer holds
\* no open part file once main has ended.
C18_WriterClosedOnEveryExit ==
    mpc \in {"done", "fatal", "interrupted"} => writer._file = None

\* The run was interrupted while a walk was under way with a part file
\* written to; the part is closed.
C18_Witness ==
    /\ mpc = "interrupted" /\ pc = "report"
    /\ writer.files_created # <<>> /\ writer._file = None
    /\ writer.total_rows > 0

\* ------------------------------------------------------------------------ C19
\* The data rows of a part file, and the part files in the order of creation.
DataRows(path) ==
    LET lines == SelectSeq(disk[path], LAMBDA l : l # HeaderLine)
    IN [j \in 1..Len(lines) |-> lines[j][2]]

HeaderCount(path) ==
    Cardinality({j \in 1..Len(disk[path]) : disk[path][j] = HeaderLine})

PartSizes == [i \in 1..Len(writer.files_created) |->
                 Len(DataRows(writer.files_created[i]))]

\* C19 as claimed: whatever max_rows_per_file = M is, 2 * M + 5 rows make
\* 3 parts of M, M and 5 rows.
C19_TwoMPlusFiveMakesThreeParts ==
    Len(out[run]) = 2 * writer.max_rows_per_file + 5 =>
        PartSizes = <<writer.max_rows_per_file, writer.max_rows_per_file, 5>>

\* C19 amended: after k > 0 rows through a writer with max_rows_per_file = M
\* there are ceil(k / M) part files, each under its own path, each beginning
\* with the header and holding no other header; every part but the last holds
\* M data rows and the last holds the rest, between 1 and M; and for M >= 5,
\* 2 * M + 5 rows make 3 parts of M, M and 5 rows.
C19_RotationMakesFullParts ==
    LET M == writer.max_rows_per_file
        k == Len(out[run])
        n == Len(writer.files_created)
    IN k > 0 =>
        /\ n = (k + M - 1) \div M
        /\ \A i, j \in 1..n :
              i # j => writer.files_created[i] # writer.files_created[j]
        /\ \A i \in 1..n :
              /\ writer.files_created[i] \in DOMAIN disk
              /\ disk[writer.files_created[i]][1] = HeaderLine
              /\ HeaderCount(writer.files_created[i]) = 1
        /\ \A i \in 1..(n - 1) : PartSizes[i] = M
        /\ PartSizes[n] = k - (n - 1) * M
        /\ PartSizes[n] >= 1 /\ PartSizes[n] =< M
        /\ (M >= 5 /\ k = 2 * M + 5) => PartSizes = <<M, M, 5>>

\* 2 * M + 5 rows went through a writer with M above 5 and it was closed:
\* three parts of M, M and 5 rows.
C19_Witness ==
    /\ writer.max_rows_per_file > 5
    /\ Len(out[run]) = 2 * writer.max_rows_per_file + 5
    /\ PartSizes = <<writer.max_rows_per_file, writer.max_rows_per_file, 5>>
    /\ WriterClosed

\* ------------------------------------------------------------------------ C20
RECURSIVE ConcatParts(_)
ConcatParts(paths) ==
    IF paths = <<>> THEN <<>>
    ELSE DataRows(Head(paths)) \o ConcatParts(Tail(paths))

\* C20: after any sequence of write_row calls the data rows of the parts, put
\* end to end in the order the parts were created, are the rows handed to
\* write_row in the order they were handed in, and total_rows is their number.
C20_RotationKeepsEveryRow ==
    /\ ConcatParts(writer.files_created) = out[run]
    /\ writer.total_rows = Len(out[run])

\* Rows went through two rotations and the third part is not full.
C20_Witness ==
    /\ Len(writer.files_created) = 3
    /\ writer.max_rows_per_file > 1
    /\ writer._rows_in_part = 1
    /\ writer.total_rows = 2 * writer.max_rows_per_file + 1
    /\ Len(out[run]) = writer.total_rows

\* ---------------------------------------------------------------- C21
\* The path up to the file extension, and the extension, as the file system
\* reads a name: the extension starts at the last "." of the last path
\* component, and a name without one has none.
StemOf(filename) ==
    IF filename = DottedDirName THEN FullName(filename) ELSE filename.base

ExtensionOf(filename) ==
    IF filename = DottedDirName THEN "" ELSE filename.ext

\* The names a part i >= 2 may bear: "_part" and i in three digits right
\* before the extension; a name without extension may be given ".csv".
PartNames(filename, i) ==
    LET stem == StemOf(filename) \o "_part" \o Pad3(i) IN
    IF ExtensionOf(filename) = ""
    THEN {stem, stem \o ".csv"}
    ELSE {stem \o ExtensionOf(filename)}

\* C21: CsvPartWriter opens files lazily and names them by part index: no
\* file exists before the first write_row; part 1 bears the base file name
\* unchanged; every part i >= 2 bears the base name with "_part" and i
\* zero-padded to three digits inserted immediately before the extension.
C21_PartsAreNamedByIndex ==
    /\ out[run] = <<>> => writer.files_created = <<>> /\ DOMAIN disk = {}
    /\ out[run] # <<>> =>
          /\ writer.files_created # <<>>
          /\ writer.files_created[1] = FullName(writer.filename)
    /\ \A i \in 2..Len(writer.files_created) :
          writer.files_created[i] \in PartNames(writer.filename, i)
    /\ DOMAIN disk = {writer.files_created[i] : i \in 1..Len(writer.files_created)}

\* ---------------------------------------------------------------- C22
\* C22: close() is idempotent: in every writer state (never opened, open,
\* already closed) a call leaves no file open and changes neither the part
\* index, the row counts, files_created nor the files, and a second call
\* changes nothing that the first one left.
C22_CloseIsIdempotent ==
    LET wd == [w |-> writer, d |-> disk]
        once == close(wd)
        twice == close(once)
    IN /\ once.w = [writer EXCEPT !._file = None]
       /\ once.d = disk
       /\ twice = once

\* close() has run on a writer that had rotated, and rows were written.
C22_Witness ==
    /\ WriterClosed
    /\ close([w |-> writer, d |-> disk]).w = writer
    /\ Len(writer.files_created) >= 2
    /\ writer.total_rows >= 2

\* ---------------------------------------------------------------- C23
\* Every calendar day of the years tried.
CalendarDays ==
    UNION {{datetime(y, m, d) : d \in 1..DaysInMonth(y, m)} :
              <<y, m>> \in SliceYears \X (1..12)}

\* The day a "%Y-%m-%d" text names.
DayOfText == [t \in {strftime(d) : d \in CalendarDays} |->
                 CHOOSE d \in CalendarDays : strftime(d) = t]

\* The day after d.
NextDay(d) ==
    IF d[3] < DaysInMonth(d[1], d[2]) THEN datetime(d[1], d[2], d[3] + 1)
    ELSE next_month(d)

\* C23: for every mode and every start <= end the slices of
\* iter_time_slices are in ascending order, do not overlap, and their day
\* ranges together are exactly the days start..end: the first slice begins
\* at start, each next one begins the day after the one before it ends, and
\* the last ends at end.  A month (year) slice bears the label YYYY-MM (YYYY)
\* of its calendar bucket and lies inside it; mode none gives the one slice
\* "all".
C23_SlicesPartitionTheWindow ==
    (call.f = "iter_time_slices" /\ Returned) =>
        LET n == Len(result.value)
            from(i) == DayOfText[result.value[i][2]]
            to(i) == DayOfText[result.value[i][3]]
        IN /\ n >= 1
           /\ \A i \in 1..n :
                 /\ result.value[i][2] \in DOMAIN DayOfText
                 /\ result.value[i][3] \in DOMAIN DayOfText
                 /\ DateLE(from(i), to(i))
           /\ from(1) = call.start_utc
           /\ to(n) = call.end_utc
           /\ \A i \in 1..(n - 1) : from(i + 1) = NextDay(to(i))
           /\ call.slice_by = "none" => n = 1 /\ result.value[1][1] = "all"
           /\ call.slice_by = "month" =>
                 \A i \in 1..n :
                    /\ result.value[i][1] = Pad4(from(i)[1]) \o "-" \o Pad2(from(i)[2])
                    /\ from(i)[1] = to(i)[1] /\ from(i)[2] = to(i)[2]
           /\ call.slice_by = "year" =>
                 \A i \in 1..n :
                    /\ result.value[i][1] = ToString(from(i)[1])
                    /\ from(i)[1] = to(i)[1]

\* A window that begins and ends in mid-month, in different years, has been
\* cut into months.
C23_Witness ==
    /\ call.f = "iter_time_slices"
    /\ call.slice_by = "month"
    /\ call.start_utc[3] = MidDay
    /\ call.end_utc[3] = MidDay
    /\ call.start_utc[1] < call.end_utc[1]
    /\ Returned
    /\ Len(result.value) >= 3
    /\ result.value[1][2] = strftime(call.start_utc)
    /\ result.value[Len(result.value)][3] = strftime(call.end_utc)

\* ---------------------------------------------------------------- C24
\* The object an item stands for: the item itself, or what a JSON string
\* denotes; anything else stands for no object.
IsJsonObjectText(item) ==
    IsStr(item) /\ strip(item) # "" /\ IsDict(json_loads(strip(item)))

SourceObject(item) ==
    IF IsDict(item) THEN item
    ELSE IF IsJsonObjectText(item) THEN json_loads(strip(item))
    ELSE PyDict(<<>>)

\* The source item has no country field or an empty one.
LacksCountry(item) ==
    ~py_bool(dict_get(SourceObject(item), COUNTRY_FIELD, PyNone))

\* C24: for every item (object, string, array, other scalar) and every
\* partition the record normalize_record returns carries the field
\* unifiedCountryCode.value with a non-empty value; where the source item
\* lacked the field or had it empty, the value is the caller's partition.
C24_CountryFieldIsPresent ==
    (call.f = "normalize_record" /\ Returned) =>
        LET row == result.value IN
        /\ IsDict(row)
        /\ HasKey(row, COUNTRY_FIELD)
        /\ py_bool(dict_get(row, COUNTRY_FIELD, PyNone))
        /\ LacksCountry(call.item) =>
              dict_get(row, COUNTRY_FIELD, PyNone) = PyStr(call.country_code)

\* A scalar item came back as a record of the caller's partition.
C24_Witness ==
    /\ call.f = "normalize_record"
    /\ call.item \in ScalarItems
    /\ Returned
    /\ dict_get(result.value, COUNTRY_FIELD, PyNone) = PyStr(call.country_code)

\* ---------------------------------------------------------------- C25
\* C25 as stated: an object item that carries the country in nested form
\* (unifiedCountryCode: {value: "KG"}) comes back from normalize_record for
\* partition "KG" unchanged: no field added, removed or modified.
C25_NestedCountryLeavesRecordUnchanged ==
    (/\ call.f = "normalize_record"
     /\ call.item = NestedDoc("KG")
     /\ call.country_code = "KG"
     /\ Returned)
        => result.value = call.item

\* C25, amended: normalize_record looks for the country under the flat key
\* "unifiedCountryCode.value" only.  An object item with the country in
\* nested form comes back with every field it had, unchanged and in place,
\* and with the flat field added, set to the partition; an object item is
\* returned unchanged exactly when it carries a non-empty flat field.
C25_FlatCountryLeavesRecordUnchanged ==
    (call.f = "normalize_record" /\ IsDict(call.item) /\ Returned) =>
        /\ (\E i \in 1..Len(VALID_COUNTRY_CODES) :
                call.item = NestedDoc(VALID_COUNTRY_CODES[i])) =>
              result.value =
                  PyDict(Append(call.item.dict,
                                <<COUNTRY_FIELD, PyStr(call.country_code)>>))
        /\ result.value = call.item <=> ~LacksCountry(call.item)

\* The document of the example, and one with the flat field of another
\* partition, have been normalized for "KG".
C25_Witness ==
    /\ call.f = "normalize_record"
    /\ call.item \in {NestedDoc("KG"), FlatDoc(PyStr("RU"))}
    /\ call.country_code = "KG"
    /\ Returned
    /\ HasKey(result.value, "docId")

Flatten(value) ==
    IF call.f = "flatten_for_humans" THEN flatten_for_humans(value)
    ELSE flatten_for_humans_archives(value)

\* C29: for every value built of nested lists, mappings and scalars
\* flatten_for_humans returns, and never one of the sentinel tokens None,
\* nan, NaN, null, [], {}: a scalar that is such a token flattens to the
\* empty string, and list elements and mapping entries whose flattened value
\* is empty are dropped, the key of a mapping entry with them: the result is
\* that of the value without them.
C29_FlattenNeverYieldsSentinel ==
    (call.f \in FlattenVersions /\ Returned) =>
        LET value == call.value
            Kept(e) == Flatten(e) # ""
            KeptEntry(e) == Flatten(e[2]) # ""
        IN /\ result.value \notin SentinelTokens
           /\ (~IsList(value) /\ ~IsDict(value)
                 /\ stripped_str(value) \in SentinelTokens) => result.value = ""
           /\ IsList(value) =>
                 /\ result.value = Flatten(PyList(SelectSeq(value.list, Kept)))
                 /\ (\A i \in 1..Len(value.list) : ~Kept(value.list[i]))
                       => result.value = ""
           /\ IsDict(value) =>
                 /\ result.value = Flatten(PyDict(SelectSeq(value.dict, KeptEntry)))
                 /\ (\A i \in 1..Len(value.dict) : ~KeptEntry(value.dict[i]))
                       => result.value = ""

\* ---------------------------------------------------------------- C30
\* C30: the text build_odata_filter returns begins with the partition
\* clause unifiedCountryCode/value eq '<code>'; the updated-since clause
\* follows iff an updated-from timestamp is given and server-side filtering
\* is asked for; the slice's date-range clauses, when given, come last; and
\* the clauses are joined by " and ".
C30_FilterIsConjunctionOfClauses ==
    (call.f = "build_odata_filter" /\ Returned) =>
        result.value =
            "unifiedCountryCode/value eq '" \o call.country_code \o "'"
            \o (IF call.updated_from # None /\ call.apply_server_updated_filter
                THEN " and resourceItemStatusDetails/updateDateTime ge "
                         \o call.updated_from
                ELSE "")
            \o (IF call.extra_clauses # <<>>
                THEN " and " \o call.extra_clauses[1]
                         \o " and " \o call.extra_clauses[2]
                ELSE "")

\* The filters of the three unit tests and one with a slice have been built.
C30_Witness ==
    /\ call.f = "build_odata_filter"
    /\ Returned
    /\ \/ /\ call.country_code = "RU"
          /\ call.apply_server_updated_filter
          /\ result.value = "unifiedCountryCode/value eq 'RU' and resourceItemStatusDetails/updateDateTime ge 2025-01-01T00:00:00.00Z"
       \/ /\ call.country_code = "KG"
          /\ call.updated_from = "2025-01-01T00:00:00.00Z"
          /\ ~call.apply_server_updated_filter
          /\ result.value = "unifiedCountryCode/value eq 'KG'"
       \/ /\ call.country_code = "BY"
          /\ call.updated_from = None
          /\ call.apply_server_updated_filter
          /\ result.value = "unifiedCountryCode/value eq 'BY' and docStartDate ge 2015-01-01T00:00:00.00Z and docStartDate le 2015-12-31T23:59:59.99Z"

\* ---------------------------------------------------------------- C27
\* The row of a record that holds nothing but the partition.
SentinelRow(country_code) ==
    [docId |-> "", country |-> COUNTRY_NAMES_RU[country_code],
     conformityDocKindName |-> "", term |-> "", applicant |-> "",
     manufacturer |-> "", technicalRegulationId |-> "", authority |-> "",
     status |-> ""]

\* C27: a malformed upstream item (a string that is no JSON, an array, an
\* unexpected scalar) never aborts a walk and is never dropped: it becomes a
\* raw-value record and a row of the output, so that with no client-side
\* filter active every page yields as many rows as it has items.
C27_EveryItemYieldsARow ==
    (call.f = "page" /\ ~call.use_client_updated_filter /\ Returned) =>
        /\ ~IsError(result.value)
        /\ Len(result.value.rows) = Len(call.data)
        /\ \A i \in 1..Len(call.data) :
              call.data[i] \in MalformedItems =>
                  result.value.rows[i] = SentinelRow(call.country_code)

\* ---------------------------------------------------------------- C28
\* The update times at or after the threshold 2025-01-01T00:00:00Z.
FreshTexts == {"2025-01-01T00:00:00Z", "2025-06-24T01:02:03Z"}

\* The item has a readable update time not earlier than the threshold.
IsFreshItem(item) ==
    \/ \E form \in UpdateForms, text \in FreshTexts : item = UpdatedDoc(form, text)
    \/ \E text \in FreshTexts : item = OddFieldDoc(text)

\* C28: while the client-side updated-since filter is active a record is
\* written iff it has a parseable update timestamp not earlier than the
\* threshold - one with a missing or unparseable timestamp is left out - and
\* the offset moves on by the number of items received all the same.
C28_ClientFilterKeepsFreshRecords ==
    (call.f = "page" /\ call.use_client_updated_filter /\ Returned) =>
        LET fresh == SelectSeq(call.data, IsFreshItem) IN
        /\ ~IsError(result.value)
        /\ Len(result.value.rows) = Len(fresh)
        /\ \A i \in 1..Len(fresh) :
              result.value.rows[i].docId =
                  flatten_for_humans(dict_get(fresh[i], "docId", PyNone))
        /\ result.value.next_skip = call.skip + Len(call.data)


\* ------------------------------------------------------------------ C31
\* The first instant a date-only text denotes: the first day of the year or
\* of the month, or the day itself.
FirstInstant(form, year, month, day) ==
    zero_padded(year, 4) \o <<"-">>
    \o zero_padded(IF form = "YYYY" THEN 1 ELSE month, 2) \o <<"-">>
    \o zero_padded(IF form \in {"YYYY", "YYYY-MM"} THEN 1 ELSE day, 2)
    \o MidnightSuffix

\* the text is of the form and denotes a day of the calendar
Denotes(text, form, year, month, day) ==
    /\ text = date_text(form, year, month, day)
    /\ IsDate(year, IF form = "YYYY" THEN 1 ELSE month,
              IF form \in {"YYYY", "YYYY-MM"} THEN 1 ELSE day)

\* a full ISO timestamp: a day of the calendar, a separator, a clock that
\* exists and the suffix
IsFullStamp(text, suffix) ==
    \E day \in StampDays, sep \in Separators, clock \in ClockTexts :
        /\ text = day \o <<sep>> \o clock \o suffix
        /\ iso_date_ok(day) /\ iso_clock_ok(clock)

\* C31: normalize_utc_timestamp maps every text of a date-only form (YYYY,
\* YYYY-MM, YYYY-MM-DD, DD.MM.YYYY) that denotes a day to the timestamp
\* YYYY-MM-DDT00:00:00.00Z of the first instant it denotes, returns a full
\* ISO timestamp ending in Z unchanged, and rewrites a trailing +00:00 to Z.
C31_DateOnlyFormsMapToFirstInstant ==
    (Returned /\ call.f = "timestamp") =>
        LET text == strip_text(call.value) IN
        /\ \A form \in DateOnlyForms, year \in YearNumbers,
              month \in MonthNumbers, day \in DayNumbers :
              Denotes(text, form, year, month, day)
                  => result.value = Text(FirstInstant(form, year, month, day))
        /\ IsFullStamp(text, <<"Z">>) => result.value = Text(text)
        /\ IsFullStamp(text, <<"+", "0", "0", ":", "0", "0">>)
              => result.value = Text(SubSeq(text, 1, Len(text) - 6) \o <<"Z">>)


\* ------------------------------------------------------------------ C32
\* The text is a year and a month, YYYY-MM, whose month is no month.
IsBadYearMonth(text) ==
    /\ Len(text) = 7 /\ text[5] = "-"
    /\ isdigit(SubSeq(text, 1, 4)) /\ isdigit(SubSeq(text, 6, 7))
    /\ int(SubSeq(text, 6, 7)) \notin 1..12

\* The text has the shape of DD.MM.YYYY and is no day of the calendar.
IsBadLocalDate(text) ==
    /\ Len(text) = 10 /\ text[3] = "." /\ text[6] = "."
    /\ ~\E year \in YearNumbers, month \in MonthNumbers, day \in DayNumbers :
           Denotes(text, "DD.MM.YYYY", year, month, day)

\* The text is a date or a time in an accepted form: one of the date-only
\* forms, or ISO-8601 as datetime.fromisoformat reads it, Z for +00:00.
IsDateTime(text) ==
    \/ \E form \in DateOnlyForms, year \in YearNumbers,
          month \in MonthNumbers, day \in DayNumbers :
          Denotes(text, form, year, month, day)
    \/ fromisoformat_ok(replace(text, "Z", <<"+", "0", "0", ":", "0", "0">>))

\* C32 as stated: normalize_utc_timestamp raises the invalid-month error for
\* a YYYY-MM text whose month is outside 1..12, and the invalid-format error
\* for every other text that is not a date or time in an accepted form.
C32_InvalidInputRaisesFormatError ==
    (Returned /\ call.f = "timestamp") =>
        LET text == strip_text(call.value) IN
        IF IsBadYearMonth(text) THEN result.value = ValueError(MonthMessage)
        ELSE ~IsDateTime(text) => result.value = ValueError(FormatMessage)

\* C32, amended: normalize_utc_timestamp raises a ValueError for every text
\* that is not a date or time in an accepted form, with the message of the
\* first check that fails: the empty-text error for a text that is empty or
\* blank, the invalid-month error for a YYYY-MM text whose month is outside
\* 1..12, the invalid-date error for a text shaped DD.MM.YYYY that is no day
\* of the calendar, and the invalid-format error for any other such text.
C32_InvalidInputRaisesItsError ==
    (Returned /\ call.f = "timestamp") =>
        LET text == strip_text(call.value) IN
        IF text = <<>> THEN result.value = ValueError(EmptyMessage)
        ELSE IF IsBadYearMonth(text) THEN result.value = ValueError(MonthMessage)
        ELSE IF IsBadLocalDate(text) THEN result.value = ValueError(DateMessage)
        ELSE ~IsDateTime(text) => result.value = ValueError(FormatMessage)

\* a month that is no month has been refused, by its own message
C32_Witness ==
    /\ Returned /\ call.f = "timestamp"
    /\ IsBadYearMonth(strip_text(call.value))
    /\ result.value = ValueError(MonthMessage)


\* ------------------------------------------------------------------ C33
\* The four configuration errors the claim names, by the check that raises
\* them.
NamedConfigErrors == {"--countries", "--limit", "signature", "--slice-end"}

\* The step issues a page request.
IssuesRequest == response.kind = "none" /\ response'.kind # "none"

\* C33: every configuration error is raised before any network activity: a
\* run ends with one only by its first step, no step follows it, a page
\* request is issued only by a run that got past the checks, and the step
\* that raises the error writes no output file and no state file (for the
\* four errors named the state file is left exactly as it was; before the
\* later ones --reset-state may have removed it).
C33_ConfigErrorsPrecedeNetwork ==
    [][/\ mpc # "config_error"
       /\ mpc' # "starting"
       /\ IssuesRequest => (mpc = "running" /\ mpc' = "running")
       /\ mpc' = "config_error" =>
            /\ mpc = "starting"
            /\ response = NoResponse /\ response' = NoResponse
            /\ out' = out /\ disk' = disk /\ fs' = fs
            /\ \/ state_file' = state_file
               \/ /\ result'.value.error \notin NamedConfigErrors
                  /\ call.args.reset_state
                  /\ state_file' = NoStateFile]_vars

\* a resumed run has been refused for its signature, with --reset-state
\* not given and the state file of the other run in place
C33_Witness ==
    /\ mpc = "config_error"
    /\ result # NoCall
    /\ result.value.error = "signature"
    /\ state_file.exists
    /\ response = NoResponse


\* ------------------------------------------------------------------ C34
\* C34: every walk of stream_country terminates: once a walk has started it
\* returns to main's loop or raises a fatal error, whatever the upstream
\* answers.
C34_EveryWalkTerminates ==
    (mpc = "running" /\ pc = "fetch") ~> (pc = "idle" \/ mpc = "fatal")

\* a walk that got through a page and then met eight failures in a row has
\* ended
C34_Witness ==
    /\ mpc = "fatal"
    /\ consecutive_errors = MAX_CONSECUTIVE_BATCH_ERRORS
    /\ skip > 0


\* ------------------------------------------------------------------ C35
\* The step takes the 504 filter fallback.
TakesFallback == use_server_updated_filter /\ ~use_server_updated_filter'

\* C35: within one walk the same offset is requested at most 9 times: at
\* most MAX_CONSECUTIVE_BATCH_ERRORS counted failures in a row, the last of
\* them fatal, and at most one 504 filter fallback, which leaves the
\* failure counter as it is.
C35_OffsetRequestedAtMostNineTimes ==
    /\ [](/\ offset_requests =< MAX_CONSECUTIVE_BATCH_ERRORS + 1
          /\ consecutive_errors =< MAX_CONSECUTIVE_BATCH_ERRORS
          /\ consecutive_errors = MAX_CONSECUTIVE_BATCH_ERRORS => mpc = "fatal")
    /\ [][TakesFallback =>
            /\ consecutive_errors' = consecutive_errors
            /\ skip' = skip
            /\ use_client_updated_filter']_vars

\* an offset has been requested nine times: seven failures and the fallback
\* before the ninth request
C35_Witness ==
    /\ offset_requests = MAX_CONSECUTIVE_BATCH_ERRORS + 1
    /\ consecutive_errors = MAX_CONSECUTIVE_BATCH_ERRORS - 1
    /\ use_client_updated_filter /\ date_filter_mode = "auto"
    /\ pc = "handle"


\* ------------------------------------------------------------------ C36
\* The state file holds an entry marked done for the unit.
IsStoredDone(file, key) ==
    file.exists /\ key \in DOMAIN file.countries /\ file.countries[key].done

\* The walk has seen the end of the unit's data: an empty page is being
\* handled, or a page shorter than the page size has been written and
\* reported.
SawEndOfData ==
    \/ pc = "handle" /\ response.kind = "ok" /\ response.data = <<>>
    \/ pc = "report_done" /\ data # <<>> /\ Len(data) < limit

\* C36: an entry is stored with done=true only by the step in which a walk
\* that has seen an empty or a short page returns normally, and for that
\* walk's unit; the step in which a walk aborts as fatal stores nothing, so
\* the unit's entry stays at the last page boundary the walk reported
\* (offset, rows written, done=false), or absent when no page succeeded.
C36_DoneOnlyOnNormalEnd ==
    [][/\ \A u \in 1..Len(WorkUnits) :
            (IsStoredDone(state_file', WorkUnits[u])
                 /\ ~IsStoredDone(state_file, WorkUnits[u])) =>
                /\ u = unit_idx
                /\ mpc = "running" /\ mpc' = "running"
                /\ SawEndOfData
                /\ pc' = "idle" /\ unit_idx' = unit_idx + 1
       /\ mpc' = "fatal" =>
            /\ state_file' = state_file
            /\ ~IsStoredDone(state_file', CurKey)
            /\ IF skip = start_skip /\ ~resume
               THEN ~HasEntry(CurKey)'
               ELSE /\ HasEntry(CurKey)'
                    /\ StateEntry(CurKey)'.next_skip = skip
                    /\ StateEntry(CurKey)'.written_in_run = total_written]_vars

\* the first unit's walk ended normally and is stored as done; the second
\* unit's walk went through a page and then failed eight times in a row
C36_Witness ==
    /\ mpc = "fatal" /\ unit_idx = 2
    /\ consecutive_errors = MAX_CONSECUTIVE_BATCH_ERRORS
    /\ IsStoredDone(state_file, WorkUnits[1])
    /\ HasEntry(CurKey) /\ ~StateEntry(CurKey).done
    /\ StateEntry(CurKey).next_skip = skip /\ skip > 0


\* ------------------------------------------------------------------ C37
\* The step is a progress report of the running walk: the report of an empty
\* page, of a page just written, or the final report after a short page
\* (the process is not killed at that point).
IsProgressReport ==
    /\ mpc = "running" /\ mpc' = "running"
    /\ \/ pc = "handle" /\ response.kind = "ok" /\ response.data = <<>>
       \/ pc = "report"
       \/ pc = "report_done"

\* The walk has made a progress report before.
HasReportedBefore ==
    \/ pc = "handle" /\ items_received > 0
    \/ pc = "report" /\ items_received > Len(data)
    \/ pc = "report_done"

\* C37: every progress report of a walk carries, as next offset, the walk's
\* start offset plus the raw items it has received so far, and as written
\* count the rows it has handed to the writer so far; neither value is lower
\* than in the walk's previous report.
C37_ProgressReportsCountItemsAndRows ==
    [][IsProgressReport =>
          LET key == CurKey
              reported == state'[key]
          IN /\ key \in DOMAIN state'
             /\ reported.next_skip = start_skip + items_received
             /\ reported.written_in_run = Len(RowsOfUnit(out[run], key))
             /\ HasReportedBefore =>
                   /\ key \in DOMAIN state
                   /\ reported.next_skip >= state[key].next_skip
                   /\ reported.written_in_run >= state[key].written_in_run]_vars

\* a resumed walk that started past offset 0 has reported a page of which
\* the client-side filter dropped an item
C37_Witness ==
    /\ mpc = "running" /\ pc = "fetch" /\ resume
    /\ start_skip > 0 /\ items_received > 0
    /\ CurKey \in DOMAIN state
    /\ state[CurKey].next_skip = start_skip + items_received
    /\ state[CurKey].written_in_run = total_written
    /\ total_written < items_received


\* ------------------------------------------------------------------ C38
\* C38: within a walk the server-side and the client-side updated-since
\* filters are never both active; with a threshold exactly one is, without
\* a threshold neither is. The server-side one being active shows in the
\* request: its $filter carries the updated-since clause exactly then.
C38_OneUpdatedFilterAtATime ==
    (mpc = "running" /\ pc # "idle") =>
        /\ ~(use_server_updated_filter /\ use_client_updated_filter)
        /\ updated_from # None =>
              (use_server_updated_filter # use_client_updated_filter)
        /\ updated_from = None =>
              (~use_server_updated_filter /\ ~use_client_updated_filter)
        /\ (pc = "handle" /\ updated_from # None) =>
              (HasUpdatedClause(response.filter) <=> use_server_updated_filter)

\* a walk in auto mode has fallen back: the client-side filter has taken
\* over from the server-side one, and a request without the clause is out
C38_Witness ==
    /\ mpc = "running" /\ pc = "handle"
    /\ updated_from # None /\ date_filter_mode = "auto"
    /\ use_client_updated_filter /\ ~use_server_updated_filter
    /\ ~HasUpdatedClause(response.filter)


\* ------------------------------------------------------------------ C39
\* C39: a walk resumed from a stored entry whose client_filter_active is
\* true sends its requests without the server-side updated-since clause and
\* filters client-side. (Until the resumed walk's first report the unit's
\* entry in state is the stored one.)
C39_ResumeKeepsClientFilter ==
    (/\ mpc = "running" /\ resume /\ pc = "handle"
     /\ items_received = 0
     /\ CurKey \in DOMAIN state
     /\ state[CurKey].client_filter_active) =>
        /\ use_client_updated_filter
        /\ ~HasUpdatedClause(response.filter)


\* ------------------------------------------------------------------ C40
\* C40: a run started with --resume never opens for writing a path that is
\* already on disk, be it the base output file or a _partNNN part file:
\* every path a step adds to the writer's created files was absent before
\* the step.
C40_ResumeNeverOverwritesOutput ==
    [][resume =>
          \A i \in 1..Len(writer'.files_created) :
              i > Len(writer.files_created) =>
                  writer'.files_created[i] \notin DOMAIN disk]_vars

====
